---- MODULE Spec2Model ----
(***************************************************************************)
(* A model of csb's Claude context engine (src/src/csb/claude_context.py)  *)
(* and of the CLI commands that drive it (src/src/csb/cli_claude.py,       *)
(* src/src/csb/cli.py, src/src/csb/devcontainer.py).                       *)
(*                                                                         *)
(* Names of files and directories are strings, modelled as sequences of    *)
(* tokens (a token is a run of characters; " " is the blank), so that the  *)
(* shell's word splitting and the f"level-{depth}" formatting are          *)
(* computed, not assumed.                                                  *)
(***************************************************************************)
EXTENDS Integers, Sequences, FiniteSets, TLC

VARIABLES
    chainLen,   \* number of proper ancestors of the project directory; the last is the filesystem root
    homePos,    \* position of Path.home() among the ancestors, 0 when it is not one
    fs,         \* the source filesystem: directory -> its Claude content
    io,         \* how the disk answers the synchronizer: "ok", or the operation that raises
    devdir,     \* whether <project>/.devcontainer exists
    csb,        \* <project>/.devcontainer/csb.json
    staging,    \* <project>/.devcontainer/claude-context
    chome,      \* /home/claude/.claude inside the container
    last,       \* the ClaudeContext.sync call of the latest command, when it made one
    out,        \* the latest call of a discovery function and what it returned
    exit,       \* the exit status of the latest command
    edits       \* changes the user made by hand so far (to the sources, to csb.json)

vars == <<chainLen, homePos, fs, io, devdir, csb, staging, chome, last, out, exit, edits>>

---------------------------------------------------------------------------
(* Bounds of the model *)

\* directories between the project and the filesystem root in the main specification
NumAnc == 2
\* changes by hand (a source deleted, csb.json edited) in one behaviour
MaxEdits == 1
\* extra paths in csb.json
MaxExtras == 1
\* the longest ancestor chain the walker is tried on, the root included
MaxChain == 4

---------------------------------------------------------------------------
(* Strings *)

RECURSIVE Digits(_)
\* str(n) for n >= 0, as decimal digit tokens
Digits(n) ==
    LET D == <<"0", "1", "2", "3", "4", "5", "6", "7", "8", "9">>
    IN IF n < 10 THEN <<D[n + 1]>> ELSE Digits(n \div 10) \o <<D[(n % 10) + 1]>>

\* str(n) for any integer
IntStr(n) == IF n < 0 THEN <<"-">> \o Digits(0 - n) ELSE Digits(n)

\* f"level-{depth}"
LevelName(depth) == <<"level-">> \o IntStr(depth)

\* the shell's collation of two digit strings of glob results (C locale: by character)
RECURSIVE LexLess(_, _)
LexLess(a, b) ==
    LET V == [c \in {"-", "0", "1", "2", "3", "4", "5", "6", "7", "8", "9"} |->
                 CASE c = "-" -> 0 [] c = "0" -> 1 [] c = "1" -> 2 [] c = "2" -> 3
                   [] c = "3" -> 4 [] c = "4" -> 5 [] c = "5" -> 6 [] c = "6" -> 7
                   [] c = "7" -> 8 [] c = "8" -> 9 [] c = "9" -> 10]
    IN IF a = <<>> THEN b # <<>>
       ELSE IF b = <<>> THEN FALSE
       ELSE IF Head(a) = Head(b) THEN LexLess(Tail(a), Tail(b))
       ELSE V[Head(a)] < V[Head(b)]

---------------------------------------------------------------------------
(* The source filesystem *)

\* directories: the project's ancestors (i = 1 is its parent, i = chainLen the root),
\* directories elsewhere, and the home directory when it is not an ancestor
Anc(i) == [kind |-> "anc", i |-> i]
Ext(j) == [kind |-> "ext", i |-> j]
HomeOff == [kind |-> "home", i |-> 0]

\* Path.home()
HomeDir == IF homePos = 0 THEN HomeOff ELSE Anc(homePos)

\* a path: a directory and the components below it
PathOf(d, rel) == [dir |-> d, rel |-> rel]

\* Python's None, for an optional path
None == [dir |-> [kind |-> "none", i |-> 0], rel |-> <<>>]

CollNames == {"rules", "skills", "agents", "commands"}

\* a sub-collection directory that is not there
NoColl == [on |-> FALSE, items |-> <<>>]

\* a directory with nothing in it that the scanner looks at
EmptyDir == [exists |-> TRUE, md |-> 0, local |-> 0, dc |-> FALSE, dcMd |-> 0,
             rules |-> NoColl, skills |-> NoColl, agents |-> NoColl, commands |-> NoColl]

AbsentDir == [EmptyDir EXCEPT !.exists = FALSE]

\* what directory d holds: fs lists the directories with content
Shape(d) ==
    IF d \in DOMAIN fs THEN fs[d]
    ELSE [EmptyDir EXCEPT !.exists = (d.kind = "anc" /\ d.i >= 1 /\ d.i <= chainLen) \/ d = HomeDir]

\* path / name
Join(p, name) == [p EXCEPT !.rel = @ \o <<name>>]

\* Path.is_file()
IsFile(p) ==
    \E s \in {Shape(p.dir)} :
       s.exists /\
       CASE p.rel = <<"CLAUDE.md">> -> s.md > 0
         [] p.rel = <<"CLAUDE.local.md">> -> s.local > 0
         [] p.rel = <<".claude", "CLAUDE.md">> -> s.dc /\ s.dcMd > 0
         [] OTHER -> FALSE

\* Path.is_dir()
IsDir(p) ==
    \E s \in {Shape(p.dir)} :
       s.exists /\
       CASE p.rel = <<>> -> TRUE
         [] p.rel = <<".claude">> -> s.dc
         [] Len(p.rel) = 2 /\ p.rel[1] = ".claude" /\ p.rel[2] \in CollNames -> s.dc /\ s[p.rel[2]].on
         [] OTHER -> FALSE

\* Path.exists()
Exists(p) == IsFile(p) \/ IsDir(p)

\* Path.name of a path that has components
PathName(p) == IF p.rel = <<>> THEN "" ELSE p.rel[Len(p.rel)]

\* what a file holds (its version), what a sub-collection directory holds (its items)
FileContent(p) ==
    LET in(s) == CASE p.rel = <<"CLAUDE.md">> -> s.md
                   [] p.rel = <<"CLAUDE.local.md">> -> s.local
                   [] p.rel = <<".claude", "CLAUDE.md">> -> s.dcMd
                   [] OTHER -> 0
    IN in(Shape(p.dir))

DirContent(p) == IF IsDir(p) /\ Len(p.rel) = 2 THEN Shape(p.dir)[p.rel[2]].items ELSE <<>>

---------------------------------------------------------------------------
(* DiscoveredContext and the scanner *)

DiscoveredContext(source_path, relative_depth) ==
    [source_path |-> source_path, relative_depth |-> relative_depth,
     claude_md |-> None, claude_local_md |-> None, rules_dir |-> None,
     skills_dir |-> None, agents_dir |-> None, commands_dir |-> None]

ArtifactFields == {"claude_md", "claude_local_md", "rules_dir", "skills_dir", "agents_dir", "commands_dir"}

has_content(context) == \E f \in ArtifactFields : context[f] # None

\* if <present>: context.<f> = p
SetIf(context, f, p, present) == IF present THEN [context EXCEPT ![f] = p] ELSE context

\* lines 162-167: the path scanned is a file
ScanFile(context, path) ==
    IF PathName(path) = "CLAUDE.md" THEN [context EXCEPT !.claude_md = path]
    ELSE IF PathName(path) = "CLAUDE.local.md" THEN [context EXCEPT !.claude_local_md = path]
    ELSE context

\* lines 171-177: the two documents directly under the directory
ScanBeside(context, path) ==
    SetIf(SetIf(context, "claude_md", Join(path, "CLAUDE.md"), Exists(Join(path, "CLAUDE.md"))),
          "claude_local_md", Join(path, "CLAUDE.local.md"), Exists(Join(path, "CLAUDE.local.md")))

\* lines 186-193 (and 148-155): the sub-collection directories of a .claude directory
ScanCollections(context, claude_dir) ==
    SetIf(SetIf(SetIf(SetIf(context,
        "rules_dir", Join(claude_dir, "rules"), IsDir(Join(claude_dir, "rules"))),
        "skills_dir", Join(claude_dir, "skills"), IsDir(Join(claude_dir, "skills"))),
        "agents_dir", Join(claude_dir, "agents"), IsDir(Join(claude_dir, "agents"))),
        "commands_dir", Join(claude_dir, "commands"), IsDir(Join(claude_dir, "commands")))

\* lines 180-193: the .claude directory of the directory, when it has one
ScanInside(context, claude_dir) ==
    IF IsDir(claude_dir)
    THEN ScanCollections(SetIf(context, "claude_md", Join(claude_dir, "CLAUDE.md"),
                               Exists(Join(claude_dir, "CLAUDE.md"))),
                         claude_dir)
    ELSE context

\* the scanner with the precedence of the two instructions documents reversed
ScanDirectoryRootFirst(path, depth) ==
    IF IsFile(path) THEN ScanFile(DiscoveredContext(path, depth), path)
    ELSE ScanBeside(ScanInside(DiscoveredContext(path, depth), Join(path, ".claude")), path)

\* the scanner taking a path for a file by its name, without asking the disk
ScanDirectoryByName(path, depth) ==
    IF PathName(path) \in {"CLAUDE.md", "CLAUDE.local.md"}
    THEN ScanFile(DiscoveredContext(path, depth), path)
    ELSE ScanInside(ScanBeside(DiscoveredContext(path, depth), path), Join(path, ".claude"))

\* ClaudeContext._scan_directory
ScanDirectory(path, depth) ==
    IF IsFile(path) THEN ScanFile(DiscoveredContext(path, depth), path)
    ELSE ScanInside(ScanBeside(DiscoveredContext(path, depth), path), Join(path, ".claude"))

---------------------------------------------------------------------------
(* The ancestor walker and the global layer *)

\* the local variables of discover_parent_contexts when the loop is entered: current is
\* the position of the directory reached; scanned and iters record what the loop did
WalkStart == [current |-> 1, depth |-> 1, contexts |-> <<>>, scanned |-> {}, iters |-> 0]

\* a list that takes every level scanned, with or without content
AppendAlways(contexts, context) == Append(contexts, context)

\* lines 127-128 (and 370-371): a level is kept when it has content
AppendIfContent(contexts, context) ==
    IF has_content(context) THEN Append(contexts, context) ELSE contexts

\* the scan of the directory reached and what it appends (lines 126-130)
ScanStep(st) ==
    [current |-> st.current + 1, depth |-> st.depth + 1,
     contexts |-> AppendIfContent(st.contexts, ScanDirectory(PathOf(Anc(st.current), <<>>), st.depth)),
     scanned |-> st.scanned \cup {Anc(st.current)},
     iters |-> st.iters + 1]

\* an iteration without the home directory exclusion
WalkStepNoHomeSkip(st) == ScanStep(st)

\* an iteration that climbs past the home directory without counting it
WalkStepFreezeDepthAtHome(st) ==
    IF Anc(st.current) = HomeDir
    THEN [st EXCEPT !.current = @ + 1, !.iters = @ + 1]
    ELSE ScanStep(st)

\* one iteration of the loop (lines 120-130)
WalkStep(st) ==
    IF Anc(st.current) = HomeDir
    THEN [st EXCEPT !.current = @ + 1, !.depth = @ + 1, !.iters = @ + 1]
    ELSE ScanStep(st)

RECURSIVE WalkPastRoot(_, _)
\* the loop without the test for the filesystem root, whose parent is itself
WalkPastRoot(st, max_depth) ==
    IF st.depth <= max_depth
    THEN WalkPastRoot(WalkStep([st EXCEPT !.current = IF @ > chainLen THEN chainLen ELSE @]), max_depth)
    ELSE st

RECURSIVE Walk(_, _)
\* the loop of ClaudeContext.discover_parent_contexts (line 119): it ends when depth
\* passes max_depth or the filesystem root is reached
Walk(st, max_depth) ==
    IF st.depth <= max_depth /\ st.current # chainLen
    THEN Walk(WalkStep(st), max_depth)
    ELSE st

\* the walk with the depth counter started at 0
ParentWalkFromZero(max_depth) == Walk([WalkStart EXCEPT !.depth = 0], max_depth)

\* the walk of discover_parent_contexts, with what it scanned
ParentWalk(max_depth) == Walk(WalkStart, max_depth)

\* ClaudeContext.discover_parent_contexts
discover_parent_contexts(max_depth) == ParentWalk(max_depth).contexts

\* ~/.claude
ClaudeHome == PathOf(HomeDir, <<".claude">>)

\* ClaudeContext.discover_global_context: the set of the level it returns, empty for None
discover_global_context ==
    LET found(context) == IF has_content(context) THEN {context} ELSE {}
    IN IF ~Exists(ClaudeHome) THEN {}
       ELSE found(ScanCollections(SetIf(DiscoveredContext(ClaudeHome, 0 - 1), "claude_md",
                                        Join(ClaudeHome, "CLAUDE.md"), Exists(Join(ClaudeHome, "CLAUDE.md"))),
                                  ClaudeHome))

---------------------------------------------------------------------------
(* The staging synchronizer *)

\* the offset of the depth tag of an extra source
ExtraDepthBase == 100

\* a mapping with no entry
EmptyMap == [k \in {} |-> None]

Put(m, k, v) == [x \in DOMAIN m \cup {k} |-> IF x = k THEN v ELSE m[x]]

\* str(dest.relative_to(self.devcontainer_path)) of <context_path>/parents/<level>/<item>
KeyOf(level, item) == <<"claude-context", "/", "parents", "/">> \o level \o <<"/", item>>

\* a level directory just made
EmptyLevel == [md |-> 0, local |-> 0,
               rules |-> NoColl, skills |-> NoColl, agents |-> NoColl, commands |-> NoColl]

NoScript == [exists |-> FALSE, executable |-> FALSE, mds |-> <<>>]

\* the staging tree after shutil.rmtree, mkdir and parents_dir.mkdir
FreshTree == [exists |-> TRUE, levels |-> [n \in {} |-> EmptyLevel], script |-> NoScript]

NoTree == [exists |-> FALSE, levels |-> [n \in {} |-> EmptyLevel], script |-> NoScript]

\* what copy_contexts starts from when it leaves the old tree in place
KeepOldTree(old) == IF old.exists THEN [old EXCEPT !.script = NoScript] ELSE FreshTree

\* lines 211-220: the context directory is removed and made anew
CleanTree(old) == FreshTree

\* what the disk does to the synchronizer's calls: nothing raises; shutil.rmtree raises
\* before it removed anything, or after it removed the level directories; a copy raises
IoOutcomes == {"ok", "rmtree", "rmtree_partial", "copy"}

\* shutil.move in the place of shutil.copy2: the source file's directory entry goes
CopyFileMoving(acc, level, field, item, source) ==
    IF acc.failed \/ source = None THEN acc
    ELSE IF io = "copy" THEN [acc EXCEPT !.failed = TRUE]
    ELSE [acc EXCEPT !.levels = [@ EXCEPT ![level] = [@ EXCEPT ![field] = FileContent(source)]],
                     !.copied = Put(@, KeyOf(level, item), source),
                     !.copies = @ + 1,
                     !.sources = [@ EXCEPT ![source.dir] = [@ EXCEPT !.md = 0, !.local = 0, !.dcMd = 0]]]

\* shutil.copy2 with its error swallowed: a copy that raises is passed over
CopyFileSkipping(acc, level, field, item, source) ==
    IF acc.failed \/ source = None \/ io = "copy" THEN acc
    ELSE [acc EXCEPT !.levels = [@ EXCEPT ![level] = [@ EXCEPT ![field] = FileContent(source)]],
                     !.copied = Put(@, KeyOf(level, item), source),
                     !.copies = @ + 1]

\* shutil.copy2 of a file to <level>/<item>: an existing file is overwritten
CopyFile(acc, level, field, item, source) ==
    IF acc.failed \/ source = None THEN acc
    ELSE IF io = "copy" THEN [acc EXCEPT !.failed = TRUE]
    ELSE [acc EXCEPT !.levels = [@ EXCEPT ![level] = [@ EXCEPT ![field] = FileContent(source)]],
                     !.copied = Put(@, KeyOf(level, item), source),
                     !.copies = @ + 1]

\* shutil.copytree of a directory to <level>/<dir_name>: it raises when the destination exists
CopyTree(acc, level, dir_name, source_dir) ==
    IF acc.failed \/ source_dir = None \/ ~IsDir(source_dir) THEN acc
    ELSE IF io = "copy" \/ acc.levels[level][dir_name].on THEN [acc EXCEPT !.failed = TRUE]
    ELSE [acc EXCEPT !.levels = [@ EXCEPT ![level] =
                                    [@ EXCEPT ![dir_name] = [on |-> TRUE, items |-> DirContent(source_dir)]]],
                     !.copied = Put(@, KeyOf(level, dir_name), source_dir),
                     !.copies = @ + 1]

\* the body of the loop of copy_contexts for one context (lines 223-259)
CopyOne(acc, context) ==
    IF acc.failed \/ context.relative_depth = 0 - 1 THEN acc
    ELSE LET level == LevelName(context.relative_depth)
             a0 == IF level \in DOMAIN acc.levels THEN acc
                   ELSE [acc EXCEPT !.levels = [n \in DOMAIN @ \cup {level} |->
                                                  IF n = level THEN EmptyLevel ELSE @[n]]]
             a1 == CopyFile(a0, level, "md", "CLAUDE.md", context.claude_md)
             a2 == CopyFile(a1, level, "local", "CLAUDE.local.md", context.claude_local_md)
             a3 == CopyTree(a2, level, "rules", context.rules_dir)
             a4 == CopyTree(a3, level, "skills", context.skills_dir)
             a5 == CopyTree(a4, level, "agents", context.agents_dir)
             a6 == CopyTree(a5, level, "commands", context.commands_dir)
         IN a6

RECURSIVE CopyLoop(_, _)
CopyLoop(acc, contexts) ==
    IF contexts = <<>> THEN acc ELSE CopyLoop(CopyOne(acc, Head(contexts)), Tail(contexts))

RECURSIVE ParentClaudeMds(_)
\* lines 291-294: the level-<depth>/CLAUDE.md of the levels the script names, as their level names
ParentClaudeMds(contexts) ==
    IF contexts = <<>> THEN <<>>
    ELSE LET c == Head(contexts)
         IN (IF c.relative_depth > 0 /\ c.claude_md # None THEN <<LevelName(c.relative_depth)>> ELSE <<>>)
            \o ParentClaudeMds(Tail(contexts))

\* the generator leaving no script when it is given no level
GenerateOnlyForLevels(contexts, config) ==
    IF contexts = <<>> THEN NoScript
    ELSE [exists |-> TRUE, executable |-> TRUE, mds |-> ParentClaudeMds(contexts)]

\* ClaudeContext._generate_setup_script: the script file written; only the references to the
\* parents' instruction documents depend on the contexts, the rest of its text is fixed
GenerateSetupScript(contexts, config) ==
    [exists |-> TRUE, executable |-> TRUE, mds |-> ParentClaudeMds(contexts)]

\* ClaudeContext.copy_contexts on the staging tree old: ok is FALSE when shutil.rmtree
\* or a copy raised, and then nothing is returned and no script is written; copies
\* counts the calls of shutil.copy2 and shutil.copytree that ended well, and sources is
\* the source filesystem as the call leaves it
copy_contexts(contexts, config, old) ==
    LET start == CleanTree(old)
        end(done) ==
            IF done.failed
            THEN [ok |-> FALSE, ret |-> EmptyMap, levels |-> contexts, copies |-> done.copies,
                  sources |-> done.sources,
                  tree |-> [exists |-> TRUE, levels |-> done.levels, script |-> start.script]]
            ELSE [ok |-> TRUE, ret |-> done.copied, levels |-> contexts, copies |-> done.copies,
                  sources |-> done.sources,
                  tree |-> [exists |-> TRUE, levels |-> done.levels,
                            script |-> GenerateSetupScript(contexts, config)]]
    IN IF old.exists /\ io \in {"rmtree", "rmtree_partial"}
       THEN [ok |-> FALSE, ret |-> EmptyMap, levels |-> contexts, copies |-> 0, sources |-> fs,
             tree |-> IF io = "rmtree" THEN old ELSE [old EXCEPT !.levels = FreshTree.levels]]
       ELSE end(CopyLoop([levels |-> start.levels, copied |-> EmptyMap, failed |-> FALSE, copies |-> 0,
                          sources |-> fs], contexts))

\* ClaudeContextConfig()
DefaultComponents == <<"CLAUDE.md", "agents", "commands", "skills", "rules", "settings.json">>

DefaultConfig ==
    [include_global |-> TRUE, global_components |-> DefaultComponents,
     auto_discover_parents |-> TRUE, parent_max_depth |-> 3, extra_paths |-> <<>>]

RECURSIVE ResolveExtrasLastFirst(_, _)
\* the extra paths taken from the end of the configured list
ResolveExtrasLastFirst(extra_paths, contexts) ==
    LET add(rest) == IF Exists(Head(extra_paths))
                     THEN AppendIfContent(rest, ScanDirectory(Head(extra_paths), ExtraDepthBase + Len(rest)))
                     ELSE rest
    IN IF extra_paths = <<>> THEN contexts
       ELSE add(ResolveExtrasLastFirst(Tail(extra_paths), contexts))

RECURSIVE ResolveExtras(_, _)
\* lines 365-371 of sync: the extra paths that exist are scanned and appended
ResolveExtras(extra_paths, contexts) ==
    IF extra_paths = <<>> THEN contexts
    ELSE ResolveExtras(Tail(extra_paths),
             IF Exists(Head(extra_paths))
             THEN AppendIfContent(contexts,
                      ScanDirectory(Head(extra_paths), ExtraDepthBase + Len(contexts)))
             ELSE contexts)

\* sync with the global layer appended to the levels it stages
SyncLevelsWithGlobal(config) ==
    LET global(g) == IF config.include_global /\ g # {} THEN <<CHOOSE c \in g : TRUE>> ELSE <<>>
    IN ResolveExtras(config.extra_paths,
           global(discover_global_context)
           \o (IF config.auto_discover_parents
               THEN discover_parent_contexts(config.parent_max_depth) ELSE <<>>))

\* the level list ClaudeContext.sync builds (lines 359-371)
\* the level list of a sync that walks the ancestors whatever the policy says
SyncLevelsAlwaysWalking(config) ==
    ResolveExtras(config.extra_paths, discover_parent_contexts(config.parent_max_depth))

SyncLevels(config) ==
    ResolveExtras(config.extra_paths,
        IF config.auto_discover_parents THEN discover_parent_contexts(config.parent_max_depth) ELSE <<>>)

\* ClaudeContext.sync
Sync(config, old) == copy_contexts(SyncLevels(config), config, old)

---------------------------------------------------------------------------
(* The generated setup script, as bash executes it in the container *)

\* CONTEXT_DIR of the script
CONTEXT_DIR == <<"/", "workspace", "/", ".devcontainer", "/", "claude-context">>

\* "$CONTEXT_DIR/parents/level-"* : one result of the glob
LevelDirStr(level) == CONTEXT_DIR \o <<"/", "parents", "/">> \o level

\* "$level_dir/<coll>/"* : one result of the glob
ItemPathStr(level, coll, name) == LevelDirStr(level) \o <<"/", coll, "/">> \o name

RECURSIVE Words(_, _)
\* the shell's word splitting of an unquoted expansion: cur is the word being read
Words(s, cur) ==
    IF s = <<>> THEN (IF cur = <<>> THEN <<>> ELSE <<cur>>)
    ELSE IF Head(s) = " " THEN (IF cur = <<>> THEN <<>> ELSE <<cur>>) \o Words(Tail(s), <<>>)
    ELSE Words(Tail(s), Append(cur, Head(s)))

RECURSIVE StripSlashes(_)
StripSlashes(s) ==
    IF s # <<>> /\ s[Len(s)] = "/" THEN StripSlashes(SubSeq(s, 1, Len(s) - 1)) ELSE s

RECURSIVE AfterLastSlash(_)
AfterLastSlash(s) ==
    IF s = <<>> THEN <<>>
    ELSE IF s[Len(s)] = "/" THEN <<>>
    ELSE Append(AfterLastSlash(SubSeq(s, 1, Len(s) - 1)), s[Len(s)])

\* basename(1) of one operand
LastComponent(s) ==
    LET last_of(t) == IF t = <<>> THEN (IF s = <<>> THEN <<>> ELSE <<"/">>) ELSE AfterLastSlash(t)
    IN last_of(StripSlashes(s))

\* what basename(1) prints for its operands: NAME, or NAME SUFFIX; with none or with
\* more than two it prints nothing (and fails, which a command substitution ignores)
BasenameCmd(operands) ==
    LET strip(b, suf) == IF Len(suf) < Len(b) /\ SubSeq(b, Len(b) - Len(suf) + 1, Len(b)) = suf
                         THEN SubSeq(b, 1, Len(b) - Len(suf)) ELSE b
    IN IF Len(operands) \in {1, 2}
       THEN strip(LastComponent(operands[1]), IF Len(operands) = 2 THEN operands[2] ELSE <<>>)
       ELSE <<>>

\* $(basename "$x") and $(basename "$x" .md): the expansion kept as one word
QuotedBase(path, suffix) == BasenameCmd(<<path>> \o suffix)

\* $(basename $x) and $(basename $x .md) as the script has them: $x is split into words
SplitBase(path, suffix) == BasenameCmd(Words(path, <<>>) \o suffix)

\* the name of the reference made for an item of a sub-collection (lines 320, 327, 334, 341)
RefName(level, coll, name) ==
    SplitBase(ItemPathStr(level, coll, name), IF coll = "skills" THEN <<>> ELSE <<<<".md">>>>)
        \o <<"-">> \o QuotedBase(LevelDirStr(level), <<>>)
        \o (IF coll = "skills" THEN <<>> ELSE <<".md">>)

\* the target of a reference: an entry of the staging tree
Target(level, coll, name) == [level |-> level, coll |-> coll, item |-> name]

\* a place in CLAUDE_HOME: a directory of it and a name there
Ref(dir, name) == [dir |-> dir, name |-> name]

\* the container's CLAUDE_HOME before the script ever ran
NoHome == [made |-> FALSE, parentsDir |-> FALSE, links |-> [r \in {} |-> Target(<<>>, "", <<>>)]]

\* the position of the item called name among items, 0 when there is none
ItemIndex(items, name) ==
    IF \E i \in 1..Len(items) : items[i].name = name
    THEN CHOOSE i \in 1..Len(items) : items[i].name = name ELSE 0

\* [ -d <target> ] for the target of a reference, in the staging tree levels
TargetIsDir(levels, t) ==
    /\ t.level \in DOMAIN levels
    /\ t.coll \in CollNames
    /\ levels[t.level][t.coll].on
    /\ LET i == ItemIndex(levels[t.level][t.coll].items, t.item)
       IN i # 0 /\ levels[t.level][t.coll].items[i].kind = "dir"

\* ln -sf target "$CLAUDE_HOME/<ref>": when the reference exists and resolves to a directory,
\* the link is made inside that directory, under the target's own name, replacing a link of that
\* name; otherwise the reference is made or replaced
LnSf(st, target, ref) ==
    IF ref \in DOMAIN st.links /\ TargetIsDir(st.levels, st.links[ref])
    THEN LET d == st.links[ref]
             i == ItemIndex(st.levels[d.level][d.coll].items, d.item)
             inside == [name |-> target.item, target |-> target]
         IN [st EXCEPT !.levels[d.level][d.coll].items[i].links =
                            {l \in @ : l.name # target.item} \cup {inside}]
    ELSE [st EXCEPT !.links = Put(@, ref, target)]

\* whether "$level_dir/<coll>/"* (skills) or "$level_dir/<coll>/"*.md matches the item, and
\* the test before ln holds: [ -d ] for a skill, [ -f ] for the others
Linked(coll, item) ==
    IF coll = "skills" THEN item.kind = "dir"
    ELSE item.kind = "file" /\ Len(item.name) > 1 /\ item.name[Len(item.name)] = ".md"

RECURSIVE LinkItems(_, _, _, _)
\* one for loop over the items of a sub-collection, from item i on
LinkItems(st, level, coll, i) ==
    LET items == st.levels[level][coll].items
    IN IF i > Len(items) THEN st
       ELSE LinkItems(
                IF Linked(coll, items[i])
                THEN LnSf(st, Target(level, coll, items[i].name),
                          Ref(coll, RefName(level, coll, items[i].name)))
                ELSE st,
                level, coll, i + 1)

RECURSIVE LinkColls(_, _, _)
\* the if blocks of a level directory, one after the other: [ -d "$level_dir/<coll>" ]
\* and the for loop over its items
LinkColls(st, level, colls) ==
    IF colls = <<>> THEN st
    ELSE LinkColls(IF st.levels[level][Head(colls)].on THEN LinkItems(st, level, Head(colls), 1) ELSE st,
                   level, Tail(colls))

\* the body of the loop over level directories (lines 314-344)
LinkLevel(st, level) == LinkColls(st, level, <<"skills", "agents", "commands", "rules">>)

RECURSIVE SortedLevels(_)
\* the results of the glob "$CONTEXT_DIR/parents/level-"*, in the shell's order
SortedLevels(S) ==
    IF S = {} THEN <<>>
    ELSE LET n == CHOOSE x \in S : \A y \in S \ {x} : LexLess(Tail(x), Tail(y))
         IN <<n>> \o SortedLevels(S \ {n})

RECURSIVE LinkLevels(_, _)
LinkLevels(st, levels) ==
    IF levels = <<>> THEN st ELSE LinkLevels(LinkLevel(st, Head(levels)), Tail(levels))

RECURSIVE LinkParents(_, _)
\* lines 303-307: one ln -sf per instructions document the script names
LinkParents(st, mds) ==
    IF mds = <<>> THEN st
    ELSE LinkParents(LnSf(st, Target(Head(mds), "", <<"CLAUDE.md">>),
                          Ref("parents", Head(mds) \o <<"-", "CLAUDE.md">>)),
                     Tail(mds))

\* the level directories the script's own parents references name
NamedLevels(tree) == {n \in DOMAIN tree.levels : \E i \in 1..Len(tree.script.mds) : tree.script.mds[i] = n}

\* the script with its level loop unrolled when it was generated: it visits the level
\* directories it names and no other
RunScriptNamedLevels(tree, home) ==
    LET end(st) == [tree |-> [tree EXCEPT !.levels = st.levels],
                    home |-> [made |-> TRUE,
                              parentsDir |-> home.parentsDir \/ tree.script.mds # <<>>,
                              links |-> st.links]]
    IN end(LinkLevels(LinkParents([levels |-> tree.levels, links |-> home.links], tree.script.mds),
                      SortedLevels(NamedLevels(tree))))

\* bash setup-claude-context.sh on the staging tree and the container's CLAUDE_HOME:
\* the tree and the home it leaves
RunScript(tree, home) ==
    LET end(st) == [tree |-> [tree EXCEPT !.levels = st.levels],
                    home |-> [made |-> TRUE,
                              parentsDir |-> home.parentsDir \/ tree.script.mds # <<>>,
                              links |-> st.links]]
    IN end(LinkLevels(LinkParents([levels |-> tree.levels, links |-> home.links], tree.script.mds),
                      SortedLevels(DOMAIN tree.levels)))

---------------------------------------------------------------------------
(* csb.json and the policy *)

\* dict.get(key, default)
Get(d, key, default) == IF key \in DOMAIN d THEN d[key] ELSE default

EmptyDict == [k \in {} |-> 0]

\* ClaudeContextConfig.to_dict
to_dict(config) ==
    [global |-> [include |-> config.include_global, components |-> config.global_components],
     parents |-> [auto_discover |-> config.auto_discover_parents, max_depth |-> config.parent_max_depth],
     extra |-> config.extra_paths]

\* ClaudeContextConfig.from_dict
\* from_dict written with "or": a value that is false, 0 or empty gives way to the default
FromDictFalsyDefaults(data) ==
    LET global_config == Get(data, "global", EmptyDict)
        parents_config == Get(data, "parents", EmptyDict)
        orTrue(value) == IF value = FALSE THEN TRUE ELSE value
        orDepth(value) == IF value = 0 THEN 3 ELSE value
        orComponents(value) == IF value = <<>> THEN DefaultComponents ELSE value
    IN [include_global |-> orTrue(Get(global_config, "include", TRUE)),
        global_components |-> orComponents(Get(global_config, "components", DefaultComponents)),
        auto_discover_parents |-> orTrue(Get(parents_config, "auto_discover", TRUE)),
        parent_max_depth |-> orDepth(Get(parents_config, "max_depth", 3)),
        extra_paths |-> Get(data, "extra", <<>>)]

from_dict(data) ==
    IF DOMAIN data = {} THEN DefaultConfig
    ELSE LET global_config == Get(data, "global", EmptyDict)
             parents_config == Get(data, "parents", EmptyDict)
         IN [include_global |-> Get(global_config, "include", TRUE),
             global_components |-> Get(global_config, "components", DefaultComponents),
             auto_discover_parents |-> Get(parents_config, "auto_discover", TRUE),
             parent_max_depth |-> Get(parents_config, "max_depth", 3),
             extra_paths |-> Get(data, "extra", <<>>)]

\* csb.json: whether the file exists, whether its text is JSON (json.loads raises when it
\* is not), and the dict it holds. No csb.json:
NoCsb == [exists |-> FALSE, json |-> TRUE, data |-> EmptyDict]

\* lines 141-147 of sync_context (and 204-210 of refresh_context): the dict and the policy loaded
LoadedDict == IF csb.exists THEN csb.data ELSE EmptyDict

LoadedConfig ==
    IF csb.exists THEN from_dict(Get(csb.data, "claude_context", EmptyDict)) ELSE DefaultConfig

\* d with d[key] = value
SetKey(d, key, value) == [k \in DOMAIN d \cup {key} |-> IF k = key THEN value ELSE d[k]]

\* lines 154-162 of sync_context, 219-225 of refresh_context: csb.json after the command
Persist(config, copied) ==
    IF DOMAIN copied # {}
    THEN [exists |-> TRUE, json |-> TRUE,
          data |-> SetKey(SetKey(LoadedDict, "claude_context", to_dict(config)),
                          "claude_context_sources", copied)]
    ELSE csb

\* DevContainer._update_config_files, lines 96-107: the csb.json it writes
UpdateConfigFiles(mcp_servers, custom_mcp_servers, has_context, claude_context) ==
    LET base == [version |-> "1.0", mcp_servers |-> mcp_servers, custom_mcp_servers |-> custom_mcp_servers]
    IN [exists |-> TRUE, json |-> TRUE,
        data |-> IF has_context THEN SetKey(base, "claude_context", to_dict(claude_context)) ELSE base]

---------------------------------------------------------------------------
(* What is remembered of the sync call of the latest command: valid is whether it made  *)
(* one, stale whether a source was deleted since                                        *)

NoResult == [valid |-> FALSE, stale |-> FALSE, ok |-> FALSE, ret |-> EmptyMap, levels |-> <<>>,
             copies |-> 0, before |-> [csb |-> NoCsb, staged |-> FALSE, io |-> "ok"],
             tree |-> NoTree, config |-> DefaultConfig, dropped |-> {}]

\* the record of a sync call on the staging tree old that just ended with r; before is
\* what the command found (csb.json, whether there was a staging tree, the disk),
\* dropped holds the keys of the mapping the call before it returned that r.ret no
\* longer has
Result(r, config, old) ==
    [valid |-> TRUE, stale |-> FALSE, ok |-> r.ok, ret |-> r.ret, levels |-> r.levels,
     copies |-> r.copies, before |-> [csb |-> csb, staged |-> old.exists, io |-> io],
     tree |-> r.tree, config |-> config, dropped |-> DOMAIN last.ret \ DOMAIN r.ret]

---------------------------------------------------------------------------
(* The commands *)

\* json.loads(csb_json_path.read_text()) raises: csb.json is there and is not JSON
LoadRaises == csb.exists /\ ~csb.json

\* what is remembered of a command that ended before it called sync
NoSyncCall == [NoResult EXCEPT !.before = [csb |-> csb, staged |-> staging.exists, io |-> io]]

\* csb claude sync (sync_context)
CliSync ==
    IF ~devdir
    THEN /\ exit' = 1
         /\ UNCHANGED <<chainLen, homePos, io, fs, devdir, csb, staging, chome, last, out, edits>>
    ELSE IF LoadRaises
    THEN /\ exit' = 1
         /\ last' = NoSyncCall
         /\ UNCHANGED <<chainLen, homePos, io, fs, devdir, csb, staging, chome, out, edits>>
    ELSE \E config \in {LoadedConfig} : \E r \in {Sync(config, staging)} :
            /\ staging' = r.tree
            /\ last' = Result(r, config, staging)
            /\ csb' = IF r.ok THEN Persist(config, r.ret) ELSE csb
            /\ exit' = IF r.ok THEN 0 ELSE 1
            /\ fs' = r.sources
            /\ UNCHANGED <<chainLen, homePos, io, devdir, chome, out, edits>>

\* csb claude refresh (refresh_context): running is whether get_container_id finds a
\* container, execOk whether docker exec ran the script to its end
\* what refresh_context did, in the order it did it, when it got as far as the sync
RefreshCalled(r, running, execOk, events) ==
    [call |-> "refresh_context", ok |-> r.ok, copied |-> r.ret, running |-> running,
     execOk |-> execOk, events |-> events]

\* refresh_context with its second step inside the branch of a sync that staged items
RefreshStepsWhenStaged(r, running, execOk, home) ==
    IF DOMAIN r.ret # {}
    THEN [events |-> <<"sync", "write csb.json", "get_container_id">>
                        \o (IF running THEN <<"refresh_in_container">> ELSE <<>>),
          after |-> IF running /\ execOk THEN RunScript(r.tree, home) ELSE [tree |-> r.tree, home |-> home]]
    ELSE [events |-> <<"sync">>, after |-> [tree |-> r.tree, home |-> home]]

\* lines 215-243 of refresh_context after a sync that returned: csb.json is written when
\* items were staged, the container is looked up and, when one runs, the script is
\* executed in it
RefreshSteps(r, running, execOk, home) ==
    [events |-> <<"sync">>
                   \o (IF DOMAIN r.ret # {} THEN <<"write csb.json">> ELSE <<>>)
                   \o <<"get_container_id">>
                   \o (IF running THEN <<"refresh_in_container">> ELSE <<>>),
     after |-> IF running /\ execOk THEN RunScript(r.tree, home) ELSE [tree |-> r.tree, home |-> home]]

CliRefresh(running, execOk) ==
    IF ~devdir
    THEN /\ exit' = 1
         /\ UNCHANGED <<chainLen, homePos, io, fs, devdir, csb, staging, chome, last, out, edits>>
    ELSE IF LoadRaises
    THEN /\ exit' = 1
         /\ last' = NoSyncCall
         /\ UNCHANGED <<chainLen, homePos, io, fs, devdir, csb, staging, chome, out, edits>>
    ELSE \E config \in {LoadedConfig} : \E r \in {Sync(config, staging)} :
         \E steps \in {IF r.ok THEN RefreshSteps(r, running, execOk, chome)
                        ELSE [events |-> <<"sync">>, after |-> [tree |-> r.tree, home |-> chome]]} :
            /\ staging' = steps.after.tree
            /\ chome' = steps.after.home
            /\ last' = Result(r, config, staging)
            /\ csb' = IF r.ok THEN Persist(config, r.ret) ELSE csb
            /\ exit' = IF r.ok THEN 0 ELSE 1
            /\ fs' = r.sources
            /\ out' = RefreshCalled(r, running, execOk, steps.events)
            /\ UNCHANGED <<chainLen, homePos, io, devdir, edits>>

\* csb init (cli.py init): force is --force, want the answer to "include Claude context"
\* (the flag, or the prompt's answer)
CliInit(force, want) ==
    IF devdir /\ ~force
    THEN /\ exit' = 1
         /\ UNCHANGED <<chainLen, homePos, io, fs, devdir, csb, staging, chome, last, out, edits>>
    ELSE \E doSync \in {want /\ (discover_parent_contexts(3) # <<>> \/ discover_global_context # {})} :
         \E config \in {DefaultConfig} : \E r \in {Sync(config, staging)} :
            /\ devdir' = TRUE
            /\ staging' = IF doSync THEN r.tree ELSE staging
            /\ last' = IF doSync THEN Result(r, config, staging) ELSE NoResult
            /\ csb' = IF doSync /\ ~r.ok THEN csb
                      ELSE UpdateConfigFiles(<<"filesystem">>, EmptyDict, doSync, config)
            /\ exit' = IF doSync /\ ~r.ok THEN 1 ELSE 0
            /\ fs' = IF doSync THEN r.sources ELSE fs
            /\ UNCHANGED <<chainLen, homePos, io, chome, out, edits>>

\* ClaudeContext.list_contexts, when it returns
\* a listing that consults the global layer only when global_components names something
ListContextsByComponents(config) ==
    [global |-> IF config.include_global /\ config.global_components # <<>>
                THEN discover_global_context ELSE {},
     parents |-> IF config.auto_discover_parents
                 THEN discover_parent_contexts(config.parent_max_depth) ELSE <<>>,
     extra |-> <<>>,
     copied |-> IF staging.exists /\ csb.exists
                THEN Get(csb.data, "claude_context_sources", EmptyMap) ELSE EmptyMap]

list_contexts(config) ==
    [global |-> IF config.include_global THEN discover_global_context ELSE {},
     parents |-> IF config.auto_discover_parents
                 THEN discover_parent_contexts(config.parent_max_depth) ELSE <<>>,
     extra |-> <<>>,
     copied |-> IF staging.exists /\ csb.exists
                THEN Get(csb.data, "claude_context_sources", EmptyMap) ELSE EmptyMap]

\* what is remembered as returned when list_context raised: nothing
NoListing == [global |-> {}, parents |-> <<>>, extra |-> <<>>, copied |-> EmptyMap]

\* csb claude list (list_context): it loads the policy as sync_context does (lines 51-57)
\* and calls list_contexts, which reads csb.json once more when there is a staging
\* tree (lines 399-404); raised is whether json.loads raised on the way
CliList ==
    /\ out' = [call |-> "list_context", csb |-> csb, raised |-> LoadRaises,
               ret |-> IF LoadRaises THEN NoListing ELSE list_contexts(LoadedConfig)]
    /\ exit' = IF LoadRaises THEN 1 ELSE 0
    /\ UNCHANGED <<chainLen, homePos, io, fs, devdir, csb, staging, chome, last, edits>>

\* how an execution of docker exec ends: the script's exit status, the 30 s timeout,
\* or docker not being there to run
ExecOutcomes == {"exit 0", "exit 1", "TimeoutExpired", "FileNotFoundError"}

\* subprocess.run (lines 421-426): a result with the return code, or an exception
SubprocessRun(outcome) ==
    CASE outcome = "exit 0" -> [raised |-> FALSE, returncode |-> 0]
      [] outcome = "exit 1" -> [raised |-> FALSE, returncode |-> 1]
      [] OTHER -> [raised |-> TRUE, returncode |-> 0 - 1]

\* refresh_in_container that runs the command once more when the first run failed
RefreshRetrying(outcomes) ==
    LET answer(first, second) ==
            IF ~first.raised /\ first.returncode = 0 THEN [ret |-> TRUE, raised |-> FALSE, runs |-> 1]
            ELSE [ret |-> ~second.raised /\ second.returncode = 0, raised |-> FALSE, runs |-> 2]
    IN answer(SubprocessRun(outcomes[1]), SubprocessRun(outcomes[2]))

\* ClaudeContext.refresh_in_container: outcomes[k] is how the k-th execution of docker
\* exec would end; ret is what it returns, raised whether an exception leaves it, runs
\* how many times it executed the command
refresh_in_container(outcomes) ==
    LET answer(result) ==
            [ret |-> ~result.raised /\ result.returncode = 0, raised |-> FALSE, runs |-> 1]
    IN answer(SubprocessRun(outcomes[1]))

\* a call of ClaudeContext.refresh_in_container for a running container: the script
\* takes effect in the container when docker exec ran it to its end
RefreshCall(outcomes) ==
    /\ staging.exists /\ staging.script.exists
    /\ \E ans \in {refresh_in_container(outcomes)} :
       \E after \in {IF \E k \in 1..ans.runs : outcomes[k] = "exit 0"
                      THEN RunScript(staging, chome) ELSE [tree |-> staging, home |-> chome]} :
          /\ out' = [call |-> "refresh_in_container", outcomes |-> outcomes,
                     ret |-> ans.ret, raised |-> ans.raised, runs |-> ans.runs]
          /\ staging' = after.tree
          /\ chome' = after.home
    /\ UNCHANGED <<chainLen, homePos, io, fs, devdir, csb, last, exit, edits>>

\* the container starts and runs the setup script (postStartCommand)
RunSetup ==
    /\ staging.exists /\ staging.script.exists
    /\ \E after \in {RunScript(staging, chome)} : staging' = after.tree /\ chome' = after.home
    /\ UNCHANGED <<chainLen, homePos, io, fs, devdir, csb, last, out, exit, edits>>

\* the extra list of csb.json, as add_source and remove_source read it
ExtraList == Get(Get(LoadedDict, "claude_context", EmptyDict), "extra", <<>>)

\* csb.json with its extra list replaced (lines 299-301, 343-345)
WithExtra(extra) ==
    [exists |-> TRUE, json |-> TRUE,
     data |-> SetKey(LoadedDict, "claude_context",
                     SetKey(Get(LoadedDict, "claude_context", EmptyDict), "extra", extra))]

\* Path(source).expanduser().resolve(): the path an argument names, however it is spelled
Resolve(source) == PathOf(source.dir, source.rel)

\* what csb claude add and csb claude remove were given and found
SourceCalled(name, source, failed, known) ==
    [call |-> name, source |-> source, failed |-> failed, known |-> known, extra |-> ExtraList,
     csb |-> csb, before |-> out.call]

\* the extra list with the source added without looking for it in the list
AppendedAnyway(extra, source_path, known) == Append(extra, source_path)

\* lines 293-298 of add_source: the list is left alone when it has the path already
Appended(extra, source_path, known) == IF known THEN extra ELSE Append(extra, source_path)

\* csb claude add (add_source)
AddSource(source) ==
    /\ Len(ExtraList) <= MaxExtras
    /\ \E source_path \in {Resolve(source)} :
       \E failed \in {~devdir \/ ~Exists(source_path) \/ LoadRaises},
          known \in {\E i \in 1..Len(ExtraList) : ExtraList[i] = source_path} :
          /\ exit' = IF failed THEN 1 ELSE 0
          /\ csb' = IF failed \/ Appended(ExtraList, source_path, known) = ExtraList THEN csb
                    ELSE WithExtra(Appended(ExtraList, source_path, known))
          /\ out' = SourceCalled("add_source", source, failed, known)
    /\ UNCHANGED <<chainLen, homePos, io, fs, devdir, staging, chome, last, edits>>

\* extra.remove leaving the list as it is
RemoveNothing(seq, x) == seq

\* list.remove: the first occurrence goes
RemoveFirst(seq, x) ==
    LET i == CHOOSE j \in 1..Len(seq) : seq[j] = x /\ \A k \in 1..(j - 1) : seq[k] # x
    IN SubSeq(seq, 1, i - 1) \o SubSeq(seq, i + 1, Len(seq))

\* csb claude remove (remove_source)
RemoveSource(source) ==
    /\ \E source_path \in {Resolve(source)} :
       \E failed \in {~csb.exists \/ LoadRaises},
          known \in {\E i \in 1..Len(ExtraList) : ExtraList[i] = source_path} :
          /\ exit' = IF failed THEN 1 ELSE 0
          /\ csb' = IF failed \/ ~known THEN csb ELSE WithExtra(RemoveFirst(ExtraList, source_path))
          /\ out' = SourceCalled("remove_source", source, failed, known)
    /\ UNCHANGED <<chainLen, homePos, io, fs, devdir, staging, chome, last, edits>>

\* DevContainer.get_csb_config found a configuration: csb.json is there, parses, and is
\* not an empty record (the callers' "if not config")
ConfigFound == csb.exists /\ csb.json /\ DOMAIN csb.data # {}

\* the "Preserve claude_context" lines of the MCP operations: the policy rebuilt from
\* the claude_context record and handed to _update_config_files
Rewritten(mcp_servers, custom_mcp_servers) ==
    UpdateConfigFiles(mcp_servers, custom_mcp_servers, "claude_context" \in DOMAIN csb.data,
                      from_dict(Get(csb.data, "claude_context", EmptyDict)))

\* what a DevContainer operation on the MCP servers did
McpCalled(name, raised, ret) == [call |-> name, raised |-> raised, ret |-> ret]

\* DevContainer.add_mcp_server
AddMcpServer(server_name) ==
    /\ \E mcp_servers \in {Get(LoadedDict, "mcp_servers", <<>>)} :
       \E known \in {\E i \in 1..Len(mcp_servers) : mcp_servers[i] = server_name} :
          /\ csb' = IF ~ConfigFound \/ known THEN csb
                    ELSE Rewritten(Append(mcp_servers, server_name),
                                   Get(csb.data, "custom_mcp_servers", EmptyDict))
          /\ out' = McpCalled("add_mcp_server", ~ConfigFound, ConfigFound /\ ~known)
    /\ UNCHANGED <<chainLen, homePos, io, fs, devdir, staging, chome, last, exit, edits>>

\* DevContainer.remove_mcp_server
RemoveMcpServer(server_name) ==
    /\ \E mcp_servers \in {Get(LoadedDict, "mcp_servers", <<>>)},
          custom_mcp_servers \in {Get(LoadedDict, "custom_mcp_servers", EmptyDict)} :
       \E built \in {\E i \in 1..Len(mcp_servers) : mcp_servers[i] = server_name} :
       \E removed \in {built \/ server_name \in DOMAIN custom_mcp_servers} :
          /\ csb' = IF ~ConfigFound \/ ~removed THEN csb
                    ELSE Rewritten(IF built THEN RemoveFirst(mcp_servers, server_name) ELSE mcp_servers,
                                   [k \in DOMAIN custom_mcp_servers \ {server_name} |-> custom_mcp_servers[k]])
          /\ out' = McpCalled("remove_mcp_server", ~ConfigFound, ConfigFound /\ removed)
    /\ UNCHANGED <<chainLen, homePos, io, fs, devdir, staging, chome, last, exit, edits>>

\* DevContainer.add_custom_mcp_server, for a server without env
AddCustomMcpServer(name, command) ==
    /\ \E mcp_servers \in {Get(LoadedDict, "mcp_servers", <<>>)},
          custom_mcp_servers \in {Get(LoadedDict, "custom_mcp_servers", EmptyDict)} :
       \E known \in {(name \in DOMAIN custom_mcp_servers)
                        \/ \E i \in 1..Len(mcp_servers) : mcp_servers[i] = name} :
          /\ csb' = IF ~ConfigFound \/ known THEN csb
                    ELSE Rewritten(mcp_servers,
                                   SetKey(custom_mcp_servers, name, [command |-> command, args |-> <<>>]))
          /\ out' = McpCalled("add_custom_mcp_server", ~ConfigFound, ConfigFound /\ ~known)
    /\ UNCHANGED <<chainLen, homePos, io, fs, devdir, staging, chome, last, exit, edits>>

\* DevContainer.update
Update ==
    /\ csb' = IF ~ConfigFound THEN csb
              ELSE Rewritten(Get(csb.data, "mcp_servers", <<>>), Get(csb.data, "custom_mcp_servers", EmptyDict))
    /\ out' = McpCalled("update", ~ConfigFound, FALSE)
    /\ UNCHANGED <<chainLen, homePos, io, fs, devdir, staging, chome, last, exit, edits>>

---------------------------------------------------------------------------
(* What the user does to the sources and to csb.json *)

\* a directory after one artifact of it is deleted
Without(shape, artifact) ==
    CASE artifact = "CLAUDE.md" -> [shape EXCEPT !.md = 0]
      [] artifact = "CLAUDE.local.md" -> [shape EXCEPT !.local = 0]
      [] artifact = ".claude" -> [shape EXCEPT !.dc = FALSE, !.dcMd = 0, !.rules = NoColl,
                                               !.skills = NoColl, !.agents = NoColl, !.commands = NoColl]
      [] artifact = ".claude/CLAUDE.md" -> [shape EXCEPT !.dcMd = 0]
      [] artifact \in CollNames -> [shape EXCEPT ![artifact] = NoColl]

Has(shape, artifact) ==
    CASE artifact = "CLAUDE.md" -> shape.md > 0
      [] artifact = "CLAUDE.local.md" -> shape.local > 0
      [] artifact = ".claude" -> shape.dc
      [] artifact = ".claude/CLAUDE.md" -> shape.dc /\ shape.dcMd > 0
      [] artifact \in CollNames -> shape.dc /\ shape[artifact].on

Artifacts == {"CLAUDE.md", "CLAUDE.local.md", ".claude", ".claude/CLAUDE.md"} \cup CollNames

\* the user deletes an artifact of a source directory
DeleteSource(d, artifact) ==
    /\ edits < MaxEdits
    /\ d \in DOMAIN fs /\ fs[d].exists /\ Has(fs[d], artifact)
    /\ fs' = [fs EXCEPT ![d] = Without(@, artifact)]
    /\ last' = [last EXCEPT !.stale = TRUE]
    /\ edits' = edits + 1
    /\ UNCHANGED <<chainLen, homePos, io, devdir, csb, staging, chome, out, exit>>

\* csb.json is overwritten with text that is not JSON
CorruptCsb ==
    /\ edits < MaxEdits
    /\ devdir /\ csb.exists /\ csb.json
    /\ csb' = [exists |-> TRUE, json |-> FALSE, data |-> EmptyDict]
    /\ edits' = edits + 1
    /\ UNCHANGED <<chainLen, homePos, io, fs, devdir, staging, chome, last, out, exit>>

\* the disk starts, or stops, failing the synchronizer's calls
IoTurns(o) ==
    /\ o # io
    /\ io' = o
    /\ UNCHANGED <<chainLen, homePos, fs, devdir, csb, staging, chome, last, out, exit, edits>>

\* the user edits the policy in csb.json: section and key name the option, value its new value
EditPolicy(section, key, value) ==
    /\ edits < MaxEdits
    /\ csb.exists
    /\ LET ctx == Get(csb.data, "claude_context", EmptyDict)
       IN csb' = [csb EXCEPT !.data = SetKey(@, "claude_context",
                      SetKey(ctx, section, SetKey(Get(ctx, section, EmptyDict), key, value)))]
    /\ edits' = edits + 1
    /\ UNCHANGED <<chainLen, homePos, io, fs, devdir, staging, chome, last, out, exit>>

---------------------------------------------------------------------------
(* The worlds the specifications start from *)

Item(name, kind) == [name |-> name, kind |-> kind, links |-> {}]

\* a directory with nothing but a CLAUDE.md
MdDir == [EmptyDir EXCEPT !.md = 1]

\* a directory with both documents beside it and a .claude of its own
FullDir == [EmptyDir EXCEPT !.md = 1, !.local = 1, !.dc = TRUE, !.dcMd = 1,
                            !.skills = [on |-> TRUE, items |-> <<Item(<<"foo">>, "dir")>>]]

\* a directory elsewhere that extra paths name
ExtA == Ext(1)

NoCall == [call |-> "none"]

\* a project csb has not touched yet, and a container that never started
Fresh ==
    /\ io = "ok"
    /\ devdir = FALSE
    /\ csb = NoCsb
    /\ staging = NoTree
    /\ chome = NoHome
    /\ last = NoResult
    /\ out = NoCall
    /\ exit = 0
    /\ edits = 0

\* the source filesystem: the ancestors below the root as ancs gives them, ExtA as ext,
\* and the home directory, when it is not an ancestor, as h
World(ancs, ext, h) ==
    [d \in DOMAIN ancs \cup {ExtA, HomeOff} |->
        IF d \in DOMAIN ancs THEN ancs[d]
        ELSE IF d = ExtA THEN ext
        ELSE IF homePos = 0 THEN h ELSE AbsentDir]

---------------------------------------------------------------------------
(* The main specification: csb init, sync and refresh on a project below NumAnc       *)
(* directories, the last of them the root, while the user deletes sources             *)

Init ==
    /\ chainLen = NumAnc
    /\ homePos \in 0..(NumAnc - 1)
    /\ \E ancs \in [{Anc(i) : i \in 1..(NumAnc - 1)} -> {EmptyDir, MdDir, FullDir}],
          h \in {EmptyDir, FullDir} :
          fs = World(ancs, AbsentDir, h)
    /\ Fresh

Next ==
    \/ CliSync
    \/ \E running \in BOOLEAN, execOk \in BOOLEAN : CliRefresh(running, execOk)
    \/ \E force \in BOOLEAN, want \in BOOLEAN : CliInit(force, want)
    \/ \E i \in 1..(NumAnc - 1), artifact \in Artifacts : DeleteSource(Anc(i), artifact)

Spec == Init /\ [][Next]_vars

---------------------------------------------------------------------------
(* The scanner on its own: one directory ExtA of any content, and _scan_directory     *)
(* called on it and on the files in it                                                *)

\* what a sub-collection directory may hold here
SomeColl == [on |-> TRUE, items |-> <<>>]

\* every content ExtA may have: the documents beside it and, when there is a .claude,
\* the document and the sub-collections inside
ScanShapes ==
    {[exists |-> TRUE, md |-> m, local |-> l, dc |-> FALSE, dcMd |-> 0,
      rules |-> NoColl, skills |-> NoColl, agents |-> NoColl, commands |-> NoColl] :
        m \in {0, 1}, l \in {0, 1}}
    \cup
    {[exists |-> TRUE, md |-> m, local |-> l, dc |-> TRUE, dcMd |-> x,
      rules |-> r, skills |-> s, agents |-> a, commands |-> c] :
        m \in {0, 1}, l \in {0, 1}, x \in {0, 1},
        r \in {NoColl, SomeColl}, s \in {NoColl, SomeColl},
        a \in {NoColl, SomeColl}, c \in {NoColl, SomeColl}}

\* the paths the scanner is called on
ScanPaths == {PathOf(ExtA, <<>>), PathOf(ExtA, <<"CLAUDE.md">>), PathOf(ExtA, <<"CLAUDE.local.md">>),
              PathOf(ExtA, <<".claude", "CLAUDE.md">>)}

InitScan ==
    /\ chainLen = 1
    /\ homePos = 0
    /\ \E shape \in ScanShapes : fs = [d \in {ExtA} |-> shape]
    /\ Fresh

\* a call of ClaudeContext._scan_directory
ScanCall(path, depth) ==
    /\ out' = [call |-> "_scan_directory", path |-> path, depth |-> depth,
               ret |-> ScanDirectory(path, depth)]
    /\ UNCHANGED <<chainLen, homePos, io, fs, devdir, csb, staging, chome, last, exit, edits>>

NextScan == \E path \in ScanPaths, depth \in {1, ExtraDepthBase} : ScanCall(path, depth)

SpecScan == InitScan /\ [][NextScan]_vars

\* paths into a directory that is not there, and a name ExtA does not have
NowherePaths == {PathOf(Ext(2), <<>>), PathOf(Ext(2), <<"CLAUDE.md">>), PathOf(ExtA, <<"notes">>)}

NextAbsent ==
    \E path \in ScanPaths \cup NowherePaths, depth \in {0 - 1, 1, ExtraDepthBase} : ScanCall(path, depth)

SpecAbsent == InitScan /\ [][NextAbsent]_vars

---------------------------------------------------------------------------
(* The ancestor walker on its own: chains of up to MaxChain ancestors, the root the   *)
(* last, each with content or without, the home directory anywhere or nowhere on it   *)

InitWalk ==
    /\ chainLen \in 1..MaxChain
    /\ homePos \in 0..chainLen
    /\ \E ancs \in [{Anc(i) : i \in 1..chainLen} -> {EmptyDir, MdDir}] : fs = World(ancs, AbsentDir, EmptyDir)
    /\ Fresh

\* a call of ClaudeContext.discover_parent_contexts
WalkCall(max_depth) ==
    /\ out' = [call |-> "discover_parent_contexts", max_depth |-> max_depth,
               ret |-> discover_parent_contexts(max_depth),
               scanned |-> ParentWalk(max_depth).scanned,
               iters |-> ParentWalk(max_depth).iters]
    /\ UNCHANGED <<chainLen, homePos, io, fs, devdir, csb, staging, chome, last, exit, edits>>

NextWalk == \E max_depth \in 0..MaxChain : WalkCall(max_depth)

SpecWalk == InitWalk /\ [][NextWalk]_vars

---------------------------------------------------------------------------
(* Sync under every policy: a project already set up, whose csb.json holds any policy *)
(* of a bounded set, a home directory with a .claude of its own on the ancestor chain *)
(* or off it, and the commands that sync                                              *)

\* what the extra paths of a policy name: a directory elsewhere, the home directory,
\* and the instructions document of ~/.claude
ExtraCandidates ==
    {PathOf(ExtA, <<>>), PathOf(HomeDir, <<>>), PathOf(HomeDir, <<".claude", "CLAUDE.md">>)}

\* the lists of at most MaxExtras extra paths, none twice (add_source adds no path twice)
ExtraLists ==
    UNION {{e \in [1..n -> ExtraCandidates] : \A i, j \in 1..n : e[i] = e[j] => i = j} : n \in 0..MaxExtras}

\* the policies whose parent_max_depth is one of depths
PoliciesOf(depths) ==
    {[include_global |-> g, global_components |-> DefaultComponents,
      auto_discover_parents |-> a, parent_max_depth |-> m, extra_paths |-> e] :
        g \in BOOLEAN, a \in BOOLEAN, m \in depths, e \in ExtraLists}

Policies == PoliciesOf({1, 3})

\* a project csb init made a .devcontainer for, with policy in its csb.json, not synced yet
SetUp(policy) ==
    /\ io = "ok"
    /\ devdir = TRUE
    /\ csb = UpdateConfigFiles(<<"filesystem">>, EmptyDict, TRUE, policy)
    /\ staging = NoTree
    /\ chome = NoHome
    /\ last = NoResult
    /\ out = NoCall
    /\ exit = 0
    /\ edits = 0

InitSync ==
    /\ chainLen = NumAnc
    /\ homePos \in 0..(NumAnc - 1)
    /\ \E ancs \in [{Anc(i) : i \in 1..(NumAnc - 1)} -> {EmptyDir, MdDir, FullDir}], ext \in {AbsentDir, MdDir} :
          fs = [World(ancs, ext, FullDir) EXCEPT ![HomeDir] = FullDir]
    /\ \E policy \in Policies : SetUp(policy)

NextSync ==
    \/ CliSync
    \/ \E running \in BOOLEAN, execOk \in BOOLEAN : CliRefresh(running, execOk)

SpecSync == InitSync /\ [][NextSync]_vars

---------------------------------------------------------------------------
(* Sync on a disk that fails: the projects of SpecSync under the default policy, with *)
(* an extra path or without, and a disk that at any moment starts or stops raising in *)
(* shutil.rmtree or in a copy                                                         *)

InitFail ==
    /\ chainLen = NumAnc
    /\ homePos \in 0..(NumAnc - 1)
    /\ \E ancs \in [{Anc(i) : i \in 1..(NumAnc - 1)} -> {EmptyDir, MdDir, FullDir}], ext \in {AbsentDir, MdDir} :
          fs = [World(ancs, ext, FullDir) EXCEPT ![HomeDir] = FullDir]
    /\ \E extra \in {<<>>, <<PathOf(ExtA, <<>>)>>} : SetUp([DefaultConfig EXCEPT !.extra_paths = extra])

NextFail ==
    \/ CliSync
    \/ \E running \in BOOLEAN, execOk \in BOOLEAN : CliRefresh(running, execOk)
    \/ \E o \in IoOutcomes : IoTurns(o)

SpecFail == InitFail /\ [][NextFail]_vars

---------------------------------------------------------------------------
(* Everything that reads the sources: list, sync and refresh on the projects of       *)
(* SpecFail, on a disk that may fail                                                  *)

NextSources ==
    \/ CliList
    \/ CliSync
    \/ \E running \in BOOLEAN, execOk \in BOOLEAN : CliRefresh(running, execOk)
    \/ \E o \in IoOutcomes : IoTurns(o)

SpecSources == InitFail /\ [][NextSources]_vars

---------------------------------------------------------------------------
(* Listing and syncing while csb.json may be overwritten with text that is not JSON:  *)
(* the projects and policies of SpecSync                                              *)

NextList ==
    \/ CliList
    \/ CliSync
    \/ \E running \in BOOLEAN, execOk \in BOOLEAN : CliRefresh(running, execOk)
    \/ CorruptCsb

SpecList == InitSync /\ [][NextList]_vars

---------------------------------------------------------------------------
(* The in-container refresh on its own: the projects of SpecFail on a disk that does  *)
(* not fail, synced, and refresh_in_container called with docker exec ending in any   *)
(* way at its first execution and at a second                                         *)

NextExec ==
    \/ CliSync
    \/ \E outcomes \in [1..2 -> ExecOutcomes] : RefreshCall(outcomes)

SpecExec == InitFail /\ [][NextExec]_vars

---------------------------------------------------------------------------
(* Sync below a long ancestor chain: the farthest ancestor under the root is one more *)
(* than ExtraDepthBase directories above the project, and parent_max_depth reaches it *)

\* the distance of the farthest ancestor below the root
FarPos == ExtraDepthBase + 1

InitDeep ==
    /\ chainLen = FarPos + 1
    /\ homePos = 0
    /\ \E near \in {EmptyDir, MdDir}, far \in {EmptyDir, MdDir, FullDir}, ext \in {MdDir, FullDir} :
          fs = [d \in {Anc(1), Anc(FarPos), ExtA, HomeOff} |->
                   IF d = Anc(1) THEN near ELSE IF d = Anc(FarPos) THEN far
                   ELSE IF d = ExtA THEN ext ELSE FullDir]
    /\ \E policy \in PoliciesOf({3, FarPos}) : SetUp(policy)

SpecDeep == InitDeep /\ [][NextSync]_vars

---------------------------------------------------------------------------
(* The setup script: ancestors and an extra source with skills, agents, commands and  *)
(* rules of several names, staged by sync and linked by the script in the container   *)

Coll(items) == [on |-> TRUE, items |-> items]

\* a directory whose .claude has a skill and an agent
SkillDir ==
    [EmptyDir EXCEPT !.md = 1, !.dc = TRUE,
                     !.skills = Coll(<<Item(<<"foo">>, "dir")>>),
                     !.agents = Coll(<<Item(<<"z", ".md">>, "file")>>)]

\* a directory whose .claude has a skill of the same name, a file beside it, a command
\* and rules
OtherSkillDir ==
    [EmptyDir EXCEPT !.dc = TRUE,
                     !.skills = Coll(<<Item(<<"README">>, "file"), Item(<<"foo">>, "dir")>>),
                     !.commands = Coll(<<Item(<<"c", ".md">>, "file")>>),
                     !.rules = Coll(<<Item(<<"notes", ".txt">>, "file"), Item(<<"r", ".md">>, "file")>>)]

\* a directory whose .claude has skills and an agent with a blank in their names
BlankNameDir ==
    [EmptyDir EXCEPT !.dc = TRUE,
                     !.skills = Coll(<<Item(<<"my">>, "dir"), Item(<<"my", " ", "skill">>, "dir")>>),
                     !.agents = Coll(<<Item(<<"x", " ", "y", ".md">>, "file")>>)]

SetupShapes == {EmptyDir, MdDir, SkillDir, OtherSkillDir, BlankNameDir}

InitSetup ==
    /\ chainLen = NumAnc
    /\ homePos = 0
    /\ \E ancs \in [{Anc(i) : i \in 1..(NumAnc - 1)} -> SetupShapes], ext \in SetupShapes \cup {AbsentDir} :
          fs = World(ancs, ext, EmptyDir)
    /\ SetUp([DefaultConfig EXCEPT !.extra_paths = <<PathOf(ExtA, <<>>)>>])

\* the name of a level directory no sync of these worlds makes
PlacedName == LevelName(7)

\* what such a directory holds: a skill directory, or an agent and a rule
PlacedShapes ==
    {[EmptyLevel EXCEPT !.skills = Coll(<<Item(<<"foo">>, "dir")>>)],
     [EmptyLevel EXCEPT !.agents = Coll(<<Item(<<"a", ".md">>, "file")>>),
                        !.rules = Coll(<<Item(<<"r", ".md">>, "file")>>)]}

\* the user puts a level directory under the staging root by hand
PlaceLevel(shape) ==
    /\ edits < MaxEdits
    /\ staging.exists
    /\ PlacedName \notin DOMAIN staging.levels
    /\ staging' = [staging EXCEPT !.levels = Put(@, PlacedName, shape)]
    /\ edits' = edits + 1
    /\ UNCHANGED <<chainLen, homePos, io, fs, devdir, csb, chome, last, out, exit>>

NextGlob ==
    \/ CliSync
    \/ RunSetup
    \/ \E shape \in PlacedShapes : PlaceLevel(shape)

SpecGlob == InitSetup /\ [][NextGlob]_vars

NextSetup ==
    \/ CliSync
    \/ \E running \in BOOLEAN, execOk \in BOOLEAN : CliRefresh(running, execOk)
    \/ RunSetup

SpecSetup == InitSetup /\ [][NextSetup]_vars

NextRebuild ==
    \/ CliSync
    \/ RunSetup
    \/ \E d \in {Anc(i) : i \in 1..(NumAnc - 1)} \cup {ExtA}, artifact \in {"CLAUDE.md", ".claude", "skills"} :
          DeleteSource(d, artifact)

SpecRebuild == InitSetup /\ [][NextRebuild]_vars

\* a directory of an organisation: CLAUDE.md, and a .claude with a skill and an agent
SharedDir ==
    [EmptyDir EXCEPT !.md = 1, !.dc = TRUE,
                     !.skills = Coll(<<Item(<<"foo">>, "dir")>>),
                     !.agents = Coll(<<Item(<<"a", ".md">>, "file")>>)]

\* the sources csb claude add is given: a CLAUDE.md file, a skills directory, a
\* directory of agents
MdFileSource == PathOf(ExtA, <<"CLAUDE.md">>)
SkillsDirSource == PathOf(ExtA, <<".claude", "skills">>)
AgentsDirSource == PathOf(ExtA, <<".claude", "agents">>)
AddableSources == {MdFileSource, SkillsDirSource, AgentsDirSource}

InitAdd ==
    /\ chainLen = NumAnc
    /\ homePos \in 0..(NumAnc - 1)
    /\ \E ancs \in [{Anc(i) : i \in 1..(NumAnc - 1)} -> {EmptyDir, MdDir, FullDir}], ext \in {SharedDir, MdDir} :
          fs = World(ancs, ext, FullDir)
    /\ SetUp(DefaultConfig)

NextAdd ==
    \/ \E source \in AddableSources : AddSource(source)
    \/ \E source \in AddableSources : RemoveSource(source)
    \/ CliSync

SpecAdd == InitAdd /\ [][NextAdd]_vars

\* extra paths into one directory elsewhere: the directory and two files of it
ExtraPathChoices ==
    {PathOf(ExtA, <<>>), PathOf(ExtA, <<"CLAUDE.md">>), PathOf(ExtA, <<"CLAUDE.local.md">>)}

\* the lists of at most MaxExtras + 1 of them, none twice
ExtraPathLists ==
    UNION {{e \in [1..n -> ExtraPathChoices] : \A i, j \in 1..n : e[i] = e[j] => i = j} :
              n \in 0..(MaxExtras + 1)}

InitExtras ==
    /\ chainLen = NumAnc + 1
    /\ homePos = 0
    /\ \E ancs \in [{Anc(i) : i \in 1..NumAnc} -> {EmptyDir, MdDir}], ext \in {AbsentDir, MdDir, FullDir} :
          fs = World(ancs, ext, FullDir)
    /\ \E extra \in ExtraPathLists, a \in BOOLEAN :
          SetUp([DefaultConfig EXCEPT !.extra_paths = extra, !.auto_discover_parents = a])

NextExtras ==
    \/ CliSync
    \/ CliList

SpecExtras == InitExtras /\ [][NextExtras]_vars

\* a path as the command line spells it: absolute, or with ~ or .. in it
Spelled(path, form) == [dir |-> path.dir, rel |-> path.rel, form |-> form]

\* the arguments csb claude add and remove are tried with: the sources of AddableSources
\* and a path that is not there, each spelled two ways
SourceArguments ==
    {Spelled(path, form) : path \in AddableSources \cup {PathOf(Ext(2), <<>>)},
                           form \in {"absolute", "unresolved"}}

InitSources ==
    /\ chainLen = NumAnc
    /\ homePos = 0
    /\ \E ancs \in [{Anc(i) : i \in 1..(NumAnc - 1)} -> {EmptyDir, MdDir}], ext \in {SharedDir, MdDir} :
          fs = World(ancs, ext, FullDir)
    /\ \/ SetUp(DefaultConfig)
       \/ SetUp([DefaultConfig EXCEPT !.extra_paths = <<MdFileSource>>])
       \/ Fresh

NextSourceList ==
    \/ \E source \in SourceArguments : AddSource(source)
    \/ \E source \in SourceArguments : RemoveSource(source)
    \/ CliSync

SpecSourceList == InitSources /\ [][NextSourceList]_vars

\* the policies serialized: those of PoliciesOf, with the default components or none
PolicySpace ==
    {[policy EXCEPT !.global_components = c] : policy \in PoliciesOf({0, 1, 2, 3}), c \in {DefaultComponents, <<>>}}

\* records with fields missing, as a csb.json written by hand or by add_source has them
PartialRecords ==
    {EmptyDict,
     [global |-> EmptyDict],
     [global |-> [include |-> FALSE]],
     [global |-> [components |-> <<"skills">>]],
     [parents |-> EmptyDict],
     [parents |-> [max_depth |-> 1]],
     [parents |-> [auto_discover |-> FALSE]],
     [extra |-> <<PathOf(ExtA, <<>>)>>],
     [global |-> [include |-> FALSE], extra |-> <<>>]}

\* ClaudeContextConfig.from_dict(config.to_dict())
RoundTripCall(config) ==
    /\ out' = [call |-> "from_dict", config |-> {config}, data |-> to_dict(config),
               ret |-> from_dict(to_dict(config))]
    /\ UNCHANGED <<chainLen, homePos, io, fs, devdir, csb, staging, chome, last, exit, edits>>

\* ClaudeContextConfig.from_dict(data)
FromDictCall(data) ==
    /\ out' = [call |-> "from_dict", config |-> {}, data |-> data, ret |-> from_dict(data)]
    /\ UNCHANGED <<chainLen, homePos, io, fs, devdir, csb, staging, chome, last, exit, edits>>

InitPolicy ==
    /\ chainLen = NumAnc
    /\ homePos = 0
    /\ fs = World([d \in {Anc(i) : i \in 1..(NumAnc - 1)} |-> EmptyDir], MdDir, FullDir)
    /\ Fresh

NextPolicy ==
    \/ \E config \in PolicySpace : RoundTripCall(config)
    \/ \E data \in PartialRecords : FromDictCall(data)

SpecPolicy == InitPolicy /\ [][NextPolicy]_vars

\* the names of the MCP servers the operations are tried with
McpNames == {"filesystem", "github"}

NextMcp ==
    \/ CliSync
    \/ \E server_name \in McpNames : AddMcpServer(server_name)
    \/ \E server_name \in McpNames \cup {"mine"} : RemoveMcpServer(server_name)
    \/ AddCustomMcpServer("mine", "run")
    \/ Update

SpecMcp == InitFail /\ [][NextMcp]_vars

\* a directory whose .claude directory holds nothing
BareClaudeDir == [EmptyDir EXCEPT !.dc = TRUE]

InitContent ==
    /\ chainLen = NumAnc + 1
    /\ homePos \in 0..NumAnc
    /\ \E ancs \in [{Anc(i) : i \in 1..NumAnc} -> {EmptyDir, BareClaudeDir, MdDir}],
          ext \in {EmptyDir, MdDir}, h \in {BareClaudeDir, FullDir} :
          fs = World(ancs, ext, h)
    /\ SetUp([DefaultConfig EXCEPT !.extra_paths = <<PathOf(ExtA, <<>>)>>])

NextContent ==
    \/ CliList
    \/ CliSync
    \/ \E max_depth \in 0..NumAnc : WalkCall(max_depth)

SpecContent == InitContent /\ [][NextContent]_vars

\* extra paths for the policy switches: a directory elsewhere, its CLAUDE.md, and the
\* project's parent directory
SwitchPathChoices == {PathOf(ExtA, <<>>), PathOf(ExtA, <<"CLAUDE.md">>), PathOf(Anc(1), <<>>)}

InitSwitch ==
    /\ chainLen = NumAnc + 1
    /\ homePos \in {0, NumAnc}
    /\ \E ancs \in [{Anc(i) : i \in 1..NumAnc} -> {EmptyDir, MdDir, FullDir}], ext \in {AbsentDir, MdDir},
          h \in {BareClaudeDir, FullDir} :
          fs = World(ancs, ext, h)
    /\ \E extra \in {e \in ExtraLists \cup {<<x>> : x \in SwitchPathChoices} : Len(e) <= 1},
          a \in BOOLEAN, g \in BOOLEAN, c \in {DefaultComponents, <<>>} :
          SetUp([DefaultConfig EXCEPT !.extra_paths = extra, !.auto_discover_parents = a,
                                      !.include_global = g, !.global_components = c])

SpecSwitch == InitSwitch /\ [][NextExtras]_vars

---------------------------------------------------------------------------
(* Properties of the scanner and of the ancestor walker *)

\* the directory D a call of the scanner was made on, and the two documents of the claim
ScannedRootMd == Join(out.path, "CLAUDE.md")
ScannedInnerMd == Join(Join(out.path, ".claude"), "CLAUDE.md")

\* C9: scanning a directory that has CLAUDE.md directly under it and also inside its
\* .claude sets the level's instructions document to the one inside .claude; when only
\* one of the two exists, that one is reported
C9_ScannerPrecedence ==
    (out.call = "_scan_directory" /\ IsDir(out.path)) =>
        /\ (IsFile(ScannedRootMd) /\ IsFile(ScannedInnerMd)) => out.ret.claude_md = ScannedInnerMd
        /\ (IsFile(ScannedRootMd) /\ ~IsFile(ScannedInnerMd)) => out.ret.claude_md = ScannedRootMd
        /\ (~IsFile(ScannedRootMd) /\ IsFile(ScannedInnerMd)) => out.ret.claude_md = ScannedInnerMd

\* a directory with both documents was scanned and the one inside .claude reported
C9_BothPresentScanned ==
    /\ out.call = "_scan_directory" /\ IsDir(out.path)
    /\ IsFile(ScannedRootMd) /\ IsFile(ScannedInnerMd)
    /\ out.ret.claude_md = ScannedInnerMd

\* whether the ancestor at position i has content the scanner finds
AncHasContent(i) == has_content(ScanDirectory(PathOf(Anc(i), <<>>), i))

\* the home directory is an ancestor below the root that the walk of the latest call reached
HomeReached ==
    /\ out.call = "discover_parent_contexts"
    /\ homePos >= 1 /\ homePos < chainLen /\ homePos <= out.max_depth

\* C8: when the home directory is one of the ancestors the walk reaches, it is not
\* scanned, no returned level has it as source_path, the walk goes on above it (the
\* ancestors above it within max_depth are scanned and returned when they have content),
\* and every returned level's depth is its directory's distance from the project
C8_HomeExclusion ==
    HomeReached =>
        /\ HomeDir \notin out.scanned
        /\ \A i \in 1..Len(out.ret) : out.ret[i].source_path # PathOf(HomeDir, <<>>)
        /\ \A j \in (homePos + 1)..(chainLen - 1) :
              j <= out.max_depth =>
                 /\ Anc(j) \in out.scanned
                 /\ AncHasContent(j) =>
                       \E i \in 1..Len(out.ret) :
                          /\ out.ret[i].source_path = PathOf(Anc(j), <<>>)
                          /\ out.ret[i].relative_depth = j
        /\ \A i \in 1..Len(out.ret) : out.ret[i].relative_depth = out.ret[i].source_path.dir.i

\* a home directory with content was passed over and a level above it returned
C8_LevelAboveHome ==
    /\ HomeReached
    /\ AncHasContent(homePos)
    /\ \E i \in 1..Len(out.ret) : out.ret[i].source_path.dir.i > homePos

\* the ancestors below the filesystem root
ChainBelowRoot == 1..(chainLen - 1)

\* the result the claim describes: one level per ancestor of the chain, closest first,
\* with depths 1, 2, ...
OneLevelPerAncestor ==
    /\ Len(out.ret) = Cardinality(ChainBelowRoot)
    /\ \A i \in ChainBelowRoot :
          /\ out.ret[i].source_path = PathOf(Anc(i), <<>>)
          /\ out.ret[i].relative_depth = i

\* a call on a chain of at most max_depth ancestors that all have content
FullChainCall ==
    /\ out.call = "discover_parent_contexts"
    /\ Cardinality(ChainBelowRoot) <= out.max_depth
    /\ \A i \in ChainBelowRoot : AncHasContent(i)

\* C7 as stated: for a chain of L <= max_depth ancestors that all have content,
\* discover_parent_contexts(max_depth) returns exactly L levels, closest first, with
\* depths 1..L
C7_AsStated == FullChainCall => OneLevelPerAncestor

\* C7: for a chain of L <= max_depth ancestors below the filesystem root, none of them
\* the home directory, that all have content, discover_parent_contexts(max_depth)
\* returns exactly L levels, closest first, with depths 1..L
C7_AncestorChain == (FullChainCall /\ homePos \notin ChainBelowRoot) => OneLevelPerAncestor

\* a chain of two or more ancestors with content was walked to its end
C7_ChainWalked ==
    /\ FullChainCall /\ homePos \notin ChainBelowRoot
    /\ Cardinality(ChainBelowRoot) >= 2
    /\ Len(out.ret) = Cardinality(ChainBelowRoot)

---------------------------------------------------------------------------
(* Properties of the synchronizer and of the commands that run it *)

\* the items a level directory may hold, with the field of the level that holds each
LevelItems == {"CLAUDE.md", "CLAUDE.local.md"} \cup CollNames

\* whether level directory lv holds item
Holds(lv, item) ==
    CASE item = "CLAUDE.md" -> lv.md > 0
      [] item = "CLAUDE.local.md" -> lv.local > 0
      [] OTHER -> lv[item].on

\* the mapping keys of everything a staging tree holds below parents/
StagedKeys(tree) ==
    {KeyOf(x[1], x[2]) : x \in {y \in (DOMAIN tree.levels) \X LevelItems : Holds(tree.levels[y[1]], y[2])}}

\* whether the copy at parents/<n>/<item> still is what its source holds
SameAsSource(tree, n, item, source) ==
    CASE item = "CLAUDE.md" -> IsFile(source) /\ tree.levels[n].md = FileContent(source)
      [] item = "CLAUDE.local.md" -> IsFile(source) /\ tree.levels[n].local = FileContent(source)
      [] OTHER -> IsDir(source) /\ tree.levels[n][item].items = DirContent(source)

\* the latest command ran a sync and no source changed since
SyncedNow == last.valid /\ ~last.stale

\* C1: running sync again with the sources unchanged returns the same mapping (same
\* keys, same value for each key) and leaves the same staging tree
C1_SyncIdempotent ==
    SyncedNow =>
        LET again == Sync(last.config, staging)
        IN /\ again.ok = last.ok
           /\ again.ret = last.ret
           /\ again.tree = last.tree

\* a sync that staged several items ended, the setup script then changed the staging
\* tree, and the sources are as they were
C1_SyncedAndTreeTouched ==
    /\ SyncedNow /\ last.ok
    /\ Cardinality(DOMAIN last.ret) >= 2
    /\ staging # last.tree

\* C2: after a successful sync the staging tree holds exactly the copies that sync made
\* (one per key of the returned mapping, each equal to its source) plus the setup
\* script; what an earlier sync staged and the sources no longer have is neither in the
\* tree nor in the mapping
C2_FullRebuild ==
    (SyncedNow /\ last.ok) =>
        /\ StagedKeys(last.tree) = DOMAIN last.ret
        /\ \A n \in DOMAIN last.tree.levels : \E item \in LevelItems : Holds(last.tree.levels[n], item)
        /\ \A n \in DOMAIN last.tree.levels : \A item \in LevelItems :
              Holds(last.tree.levels[n], item) =>
                 SameAsSource(last.tree, n, item, last.ret[KeyOf(n, item)])
        /\ last.tree.script.exists /\ last.tree.script.executable
        /\ last.dropped \cap StagedKeys(last.tree) = {}
        /\ last.dropped \cap DOMAIN last.ret = {}

\* a sync ran after a staged source was deleted, and still staged something else
C2_DeletedThenSynced ==
    /\ SyncedNow /\ last.ok
    /\ last.dropped # {}
    /\ DOMAIN last.ret # {}
    /\ staging = last.tree

\* the table csb.json holds under claude_context_sources (none reads as an empty one)
PersistedSources == Get(LoadedDict, "claude_context_sources", EmptyMap)

\* C3 as stated: after every command that ran a sync (csb claude sync, csb claude
\* refresh, csb init with Claude context) the table persisted in csb.json under
\* claude_context_sources is the mapping that sync returned, an empty one included
C3_PersistedIsLatest ==
    (SyncedNow /\ last.ok /\ exit = 0) => PersistedSources = last.ret

\* after csb claude sync or refresh returned an empty mapping, csb.json still holds
\* the table of an earlier sync
C3_StaleTableKept ==
    /\ SyncedNow /\ last.ok /\ exit = 0
    /\ last.ret = EmptyMap
    /\ PersistedSources # EmptyMap

\* whether path p lies in ~/.claude
InClaudeHome(p) == p.dir = HomeDir /\ Len(p.rel) >= 1 /\ p.rel[1] = ".claude"

\* whether a level was built from an extra path
FromExtra(context) ==
    /\ context.relative_depth >= ExtraDepthBase
    /\ \E i \in 1..Len(last.config.extra_paths) : last.config.extra_paths[i] = context.source_path

C6_DistinctDepths ==
    last.valid =>
        \A i, j \in 1..Len(last.levels) :
            last.levels[i].relative_depth = last.levels[j].relative_depth => i = j

\* an ancestor level and an extra level of one sync share their depth, and with it
\* their level directory
C6_SharedLevelDirectory ==
    /\ last.valid
    /\ \E i, j \in 1..Len(last.levels) :
          /\ i < j
          /\ last.levels[i].relative_depth = last.levels[j].relative_depth
          /\ ~FromExtra(last.levels[i])
          /\ FromExtra(last.levels[j])

\* the field of a level that names the source staged as item
FieldOf(item) ==
    CASE item = "CLAUDE.md" -> "claude_md"
      [] item = "CLAUDE.local.md" -> "claude_local_md"
      [] item = "rules" -> "rules_dir"
      [] item = "skills" -> "skills_dir"
      [] item = "agents" -> "agents_dir"
      [] item = "commands" -> "commands_dir"

\* whether the mapping entry under key k has the documented form and names the source
\* of a level of the sync: claude-context/parents/level-<depth>/<item> -> that level's item
EntryOfALevel(k) ==
    \E i \in 1..Len(last.levels), item \in LevelItems :
        /\ k = KeyOf(LevelName(last.levels[i].relative_depth), item)
        /\ last.ret[k] = last.levels[i][FieldOf(item)]

\* C11 as stated: after a successful sync the returned mapping has exactly one entry
\* per copy performed and no other entry; each key has the form
\* claude-context/parents/level-<depth>/<item> and exists in the staging tree, and each
\* value is the source path of the artifact copied there
C11_OneEntryPerCopy ==
    (SyncedNow /\ last.ok) =>
        /\ Cardinality(DOMAIN last.ret) = last.copies
        /\ DOMAIN last.ret = StagedKeys(last.tree)
        /\ \A k \in DOMAIN last.ret : EntryOfALevel(k)

\* a successful sync made two copies to one destination, and the mapping has one entry
\* for the two
C11_TwoCopiesOneEntry ==
    /\ SyncedNow /\ last.ok
    /\ last.copies = 2
    /\ Cardinality(DOMAIN last.ret) = 1

\* shutil.rmtree or a copy raised in the sync call of the latest command: the disk
\* failed removals and there was a tree to remove, or it failed copies and there was a
\* level to copy, or a copytree found its destination there
StagingRaised ==
    /\ last.valid
    /\ \/ last.before.io \in {"rmtree", "rmtree_partial"} /\ last.before.staged
       \/ last.before.io = "copy" /\ last.levels # <<>>
       \/ ~last.ok

\* C12: when deleting the old staging tree or a copy fails during sync, the failure
\* leaves ClaudeContext.sync (it returns no mapping, partial or otherwise), the command
\* ends with a failure status without running sync again (the staging tree is as the
\* failed call left it), and csb.json, with the policy and the mapping it holds, is as
\* it was before the command
C12_StagingFailureIsHard ==
    StagingRaised =>
        /\ ~last.ok
        /\ last.ret = EmptyMap
        /\ exit = 1
        /\ csb = last.before.csb
        /\ (~last.stale => staging = last.tree)

\* a copy raised in a sync that ran after an earlier one had persisted its mapping, and
\* the staging tree is left without what the earlier sync staged
C12_FailedAfterPersisted ==
    /\ StagingRaised /\ last.before.io = "copy"
    /\ PersistedSources # EmptyMap
    /\ last.tree.exists /\ ~last.tree.script.exists

\* whether a csb.json file is there and is not JSON
Malformed(file) == file.exists /\ ~file.json

\* C13 as stated: when csb.json exists but is not valid JSON, list, sync and refresh
\* fall back to the default policy instead of failing (sync and refresh run their
\* sync under the default policy), and csb claude list returns a result in every
\* filesystem and configuration state
C13_MalformedIsMissing ==
    /\ out.call = "list_context" => (~out.raised /\ exit = 0)
    /\ Malformed(last.before.csb) => (last.valid /\ last.config = DefaultConfig)

\* csb claude list ended with an exception on a csb.json that is not JSON
C13_ListRaisedOnMalformed ==
    /\ out.call = "list_context" /\ Malformed(out.csb)
    /\ out.raised /\ exit = 1

\* C15: no step of list, sync or refresh, whether its sync succeeds or fails, creates,
\* modifies or deletes anything in the source filesystem: every source artifact of
\* every level is after the command what it was before
C15_SourcesReadOnly == [][fs' = fs]_vars

\* a sync copied several artifacts and all of their sources are still in place
C15_CopiedSourcesInPlace ==
    /\ SyncedNow /\ last.ok
    /\ last.copies >= 2
    /\ \A k \in DOMAIN last.ret : Exists(last.ret[k])
    /\ \A n \in DOMAIN last.tree.levels : \A item \in LevelItems :
          Holds(last.tree.levels[n], item) => SameAsSource(last.tree, n, item, last.ret[KeyOf(n, item)])

\* whether a level gets a parents reference: depth > 0 and an instructions document
NamedInScript(context) == context.relative_depth > 0 /\ context.claude_md # None

\* the parents references level-<depth>-CLAUDE.md a level list calls for, in its order
ReferencesFor(levels) ==
    [i \in 1..Len(SelectSeq(levels, NamedInScript)) |->
        LevelName(SelectSeq(levels, NamedInScript)[i].relative_depth)]

\* C16: after every successful sync, one that discovers no level included, the file
\* claude-context/setup-claude-context.sh exists with executable mode, and it names a
\* parents reference level-<depth>-CLAUDE.md exactly for the levels of that same sync
\* that have depth > 0 and an instructions document
C16_ScriptRewritten ==
    (last.valid /\ last.ok) =>
        /\ last.tree.script.exists
        /\ last.tree.script.executable
        /\ last.tree.script.mds = ReferencesFor(last.levels)

\* a sync that found no level at all left a script, which names no reference
C16_ScriptWithoutLevels ==
    /\ SyncedNow /\ last.ok
    /\ last.levels = <<>>
    /\ staging.script.exists /\ staging.script.executable
    /\ staging.script.mds = <<>>

---------------------------------------------------------------------------
(* Properties of the in-container refresh *)

\* C14: refresh_in_container returns true exactly when the execution of the setup
\* script in the container exits with status 0; for a non-zero exit, a timeout or any
\* other failure to run the command it returns false; it never raises to its caller,
\* and it executes the command once, whatever a second execution would have done
C14_RefreshReportsBoolean ==
    out.call = "refresh_in_container" =>
        /\ out.ret = (out.outcomes[1] = "exit 0")
        /\ ~out.raised
        /\ out.runs = 1

\* docker exec timed out where a second execution would have succeeded, and false was
\* returned with the container left as it was
C14_TimeoutReportedFalse ==
    /\ out.call = "refresh_in_container"
    /\ out.outcomes = <<"TimeoutExpired", "exit 0">>
    /\ ~out.ret /\ ~chome.made

---------------------------------------------------------------------------
(* Properties of the setup script *)

\* the script is there to run
ScriptStaged == staging.exists /\ staging.script.exists

\* what one more execution of the script leaves, and what the one after it leaves
FirstRun == RunScript(staging, chome)
SecondRun == RunScript(FirstRun.tree, FirstRun.home)

\* C4 as stated: a second execution of setup-claude-context.sh against the staging
\* tree the first one left leaves the container's directories and the staging tree as
\* they were after the first; each reference creation overwrites the reference of the
\* same name and makes no additional entry anywhere
C4_RerunChangesNothing ==
    ScriptStaged => (SecondRun.home = FirstRun.home /\ SecondRun.tree = FirstRun.tree)

\* the script ran twice in the container and a staged skill directory now holds a
\* link the sync did not put there
C4_LinkInsideStagedSkill ==
    /\ ScriptStaged /\ chome.made
    /\ \E n \in DOMAIN staging.levels :
          \E i \in 1..Len(staging.levels[n].skills.items) :
             staging.levels[n].skills.items[i].links # {}

\* <name>-level-<depth> for a skill, <name>-level-<depth>.md for the .md file <name>.md
NamedRef(level, coll, name) ==
    IF coll = "skills" THEN name \o <<"-">> \o level
    ELSE SubSeq(name, 1, Len(name) - 1) \o <<"-">> \o level \o <<".md">>

\* the items of the staging tree the script makes references for
LinkedItems ==
    UNION {{<<n, coll, i>> : i \in {j \in 1..Len(staging.levels[n][coll].items) :
                                      Linked(coll, staging.levels[n][coll].items[j])}} :
              <<n, coll>> \in {y \in (DOMAIN staging.levels) \X CollNames : staging.levels[y[1]][y[2]].on}}

\* C5 as stated: after the setup script ran, every skill directory and every agent,
\* command and rule .md file of every staged level has a reference of its own in the
\* target directory, named <name>-level-<depth> (or <name>-level-<depth>.md), that
\* resolves to that level's item: no two items share a reference and none replaces
\* another
C5_OneReferencePerItem ==
    ScriptStaged =>
        \A x \in LinkedItems :
            LET name == staging.levels[x[1]][x[2]].items[x[3]].name
                ref == Ref(x[2], NamedRef(x[1], x[2], name))
            IN /\ ref \in DOMAIN FirstRun.home.links
               /\ FirstRun.home.links[ref] = Target(x[1], x[2], name)

\* two levels staged a skill directory of the same name and the script made a
\* reference for each
C5_SameNameTwoLevels ==
    /\ ScriptStaged /\ chome.made
    /\ \E n, m \in DOMAIN staging.levels :
          /\ n # m
          /\ Ref("skills", <<"foo", "-">> \o n) \in DOMAIN chome.links
          /\ Ref("skills", <<"foo", "-">> \o m) \in DOMAIN chome.links
          /\ chome.links[Ref("skills", <<"foo", "-">> \o n)] = Target(n, "skills", <<"foo">>)
          /\ chome.links[Ref("skills", <<"foo", "-">> \o m)] = Target(m, "skills", <<"foo">>)

\* the level directories of the level list the staged script was generated from
GeneratedFor == {LevelName(last.levels[i].relative_depth) : i \in 1..Len(last.levels)}

\* the links an execution left that resolve into a level directory: the references of
\* CLAUDE_HOME and the links inside staged directories
LinksInto(run, n) ==
    {r \in DOMAIN run.home.links : run.home.links[r].level = n /\ run.home.links[r].coll # ""}
        \cup UNION {UNION {UNION {{l \in run.tree.levels[m][coll].items[i].links : l.target.level = n} :
                                     i \in 1..Len(run.tree.levels[m][coll].items)} :
                              coll \in CollNames} :
                       m \in DOMAIN run.tree.levels}

\* C17: when the setup script runs it makes the sub-collection references (rules,
\* skills, agents, commands) for every directory level-* that is under the staging
\* root at that moment, whether or not the level was in the list the script was
\* generated from: each item the loops match has the reference its ln names, and each
\* level directory with such an item has a link resolving into it
C17_LevelsFoundAtExecution ==
    ScriptStaged =>
        \A run \in {FirstRun} :
            \A x \in LinkedItems :
                /\ Ref(x[2], RefName(x[1], x[2], staging.levels[x[1]][x[2]].items[x[3]].name))
                       \in DOMAIN run.home.links
                /\ LinksInto(run, x[1]) # {}

\* the script ran on a tree holding a level directory that its level list did not
\* have, and CLAUDE_HOME has a reference to an item of that directory
C17_PlacedLevelReferenced ==
    /\ ScriptStaged /\ chome.made
    /\ PlacedName \in DOMAIN staging.levels
    /\ PlacedName \notin GeneratedFor
    /\ \E r \in DOMAIN chome.links : chome.links[r] = Target(PlacedName, r.dir, chome.links[r].item)

\* the extra source resolved to a level with content whose artifacts are in the
\* staging tree and in the mapping returned
ReachedStaging(source) ==
    /\ \E i \in 1..Len(last.levels) :
          last.levels[i].source_path = source /\ has_content(last.levels[i])
    /\ \E k \in DOMAIN last.ret : k \in StagedKeys(last.tree) /\ last.ret[k].dir = source.dir

\* the extra sources of the policy the last sync ran with that are still on disk
ExtrasSynced ==
    {source \in AddableSources :
        Exists(source) /\ \E i \in 1..Len(last.config.extra_paths) : last.config.extra_paths[i] = source}

\* C18 as stated: an extra source added with csb claude add that is a CLAUDE.md file,
\* a skills directory or a directory of agents is, on the next sync, resolved to a
\* level with content, its artifacts are copied into the staging tree and they are
\* listed in the mapping returned
C18_ExtraSourcesStaged ==
    (SyncedNow /\ last.ok) => \A source \in ExtrasSynced : ReachedStaging(source)

\* a sync ran with an existing skills directory among its extra sources, made no level
\* of it, and neither the tree nor the mapping has anything of that source
C18_SkillsDirectoryDropped ==
    /\ SyncedNow /\ last.ok
    /\ SkillsDirSource \in ExtrasSynced
    /\ IsDir(SkillsDirSource) /\ DirContent(SkillsDirSource) # <<>>
    /\ \A i \in 1..Len(last.levels) : last.levels[i].source_path # SkillsDirSource
    /\ \A k \in DOMAIN last.ret : last.ret[k].dir # ExtA

\* an added CLAUDE.md file did reach the staging tree and the mapping
ExtraFileStaged ==
    SyncedNow /\ last.ok /\ MdFileSource \in ExtrasSynced /\ ReachedStaging(MdFileSource)

\* the directories between the project and the filesystem root
Climbable == chainLen - 1

\* C19: discover_parent_contexts(max_depth), max_depth >= 0, ends after at most
\* max_depth iterations; it stops at the filesystem root, which it never scans; its
\* depth counter goes up by one for each directory climbed, with or without content, so
\* that every level carries the distance of its directory; the depths returned are
\* strictly increasing and within 1..max_depth
C19_WalkBounded ==
    out.call = "discover_parent_contexts" =>
        /\ out.iters <= out.max_depth
        /\ out.iters = IF out.max_depth < Climbable THEN out.max_depth ELSE Climbable
        /\ Anc(chainLen) \notin out.scanned
        /\ Cardinality(out.scanned) <= out.iters
        /\ \A i \in 1..Len(out.ret) :
              /\ out.ret[i].relative_depth \in 1..out.max_depth
              /\ out.ret[i].relative_depth = out.ret[i].source_path.dir.i
        /\ \A i, j \in 1..Len(out.ret) :
              i < j => out.ret[i].relative_depth < out.ret[j].relative_depth

\* a walk allowed to go further stopped at the root, after climbing a directory
\* without content between two levels
C19_StoppedAtRootPastEmpty ==
    /\ out.call = "discover_parent_contexts"
    /\ out.max_depth > Climbable
    /\ out.iters = Climbable
    /\ \E i \in 1..(Len(out.ret) - 1) : out.ret[i + 1].relative_depth > out.ret[i].relative_depth + 1

\* at least one of the six optional artifact fields of the level is set
HasArtifact(level) ==
    \/ level.claude_md # None
    \/ level.claude_local_md # None
    \/ level.rules_dir # None
    \/ level.skills_dir # None
    \/ level.agents_dir # None
    \/ level.commands_dir # None

\* C20: every level of the list discover_parent_contexts returns, of the level list
\* sync builds from ancestors and extra sources, and of the parents list of
\* list_contexts has at least one artifact field set; the global entry of list_contexts
\* is absent or a level with a field set
C20_OnlyLevelsWithContent ==
    /\ out.call = "discover_parent_contexts" => \A i \in 1..Len(out.ret) : HasArtifact(out.ret[i])
    /\ last.valid => \A i \in 1..Len(last.levels) : HasArtifact(last.levels[i])
    /\ (out.call = "list_context" /\ ~out.raised) =>
          /\ \A i \in 1..Len(out.ret.parents) : HasArtifact(out.ret.parents[i])
          /\ \A g \in out.ret.global : HasArtifact(g)

\* ~/.claude is there and holds nothing, an ancestor and the extra source have no
\* content: the listing has no global entry and fewer parents than ancestors, and the
\* sync built a list without the extra source
C20_EmptyLevelsDropped ==
    /\ out.call = "list_context" /\ ~out.raised
    /\ Exists(ClaudeHome) /\ out.ret.global = {}
    /\ Len(out.ret.parents) >= 1 /\ Len(out.ret.parents) < NumAnc - (IF homePos = 0 THEN 0 ELSE 1)
    /\ SyncedNow /\ last.ok
    /\ Exists(PathOf(ExtA, <<>>))
    /\ \A i \in 1..Len(last.levels) : last.levels[i].source_path.dir # ExtA

\* the position in the configured extra_paths of the path a level was scanned from, 0
\* when the level is not from an extra path
ExtraIndex(level) ==
    IF \E i \in 1..Len(last.config.extra_paths) : last.config.extra_paths[i] = level.source_path
    THEN CHOOSE i \in 1..Len(last.config.extra_paths) : last.config.extra_paths[i] = level.source_path
    ELSE 0

\* C21: in a sync, an extra path that does not exist is passed over without error and
\* gives no level; an existing extra path is scanned with depth 100 + the number of
\* levels in the list at that moment; the levels of extra paths come after all ancestor
\* levels, in the order of the configured extra_paths
C21_ExtraResolution ==
    last.valid =>
        /\ last.ok /\ exit = 0
        /\ \A i \in 1..Len(last.levels) :
              /\ Exists(last.levels[i].source_path)
              /\ ExtraIndex(last.levels[i]) # 0 => last.levels[i].relative_depth = 100 + (i - 1)
              /\ ExtraIndex(last.levels[i]) = 0 => last.levels[i].source_path.dir.kind = "anc"
        /\ \A i, j \in 1..Len(last.levels) :
              i < j =>
                 /\ ExtraIndex(last.levels[i]) # 0 => ExtraIndex(last.levels[i]) < ExtraIndex(last.levels[j])
        /\ \A k \in 1..Len(last.config.extra_paths) :
              LET source == last.config.extra_paths[k]
                  here == {i \in 1..Len(last.levels) : last.levels[i].source_path = source}
              IN /\ ~Exists(source) => here = {}
                 /\ (Exists(source) /\ has_content(ScanDirectory(source, 0))) => Cardinality(here) = 1

\* a sync whose first extra path is missing: it succeeded, and the existing extra path
\* after it made the level behind the one ancestor level, tagged 101
C21_MissingExtraPassedOver ==
    /\ SyncedNow /\ last.ok
    /\ Len(last.config.extra_paths) >= 2
    /\ ~Exists(last.config.extra_paths[1])
    /\ Len(last.levels) = 2
    /\ last.levels[1].source_path.dir.kind = "anc"
    /\ last.levels[2].source_path = last.config.extra_paths[2]
    /\ last.levels[2].relative_depth = 101

\* the path is the extra path or lies below it
Under(p, e) == p.dir = e.dir /\ Len(e.rel) <= Len(p.rel) /\ SubSeq(p.rel, 1, Len(e.rel)) = e.rel

\* C22: with auto_discover_parents false, sync does not walk the ancestors: every level
\* of its list, every level directory of the staging tree and every entry of the
\* mapping comes from an extra path (none is tagged with an ancestor depth), and
\* list_contexts reports an empty parents list, whatever the ancestors hold
C22_NoWalkWhenSwitchedOff ==
    /\ (last.valid /\ ~last.config.auto_discover_parents) =>
          /\ \A i \in 1..Len(last.levels) :
                /\ \E k \in 1..Len(last.config.extra_paths) :
                      last.levels[i].source_path = last.config.extra_paths[k]
                /\ last.levels[i].relative_depth > last.config.parent_max_depth
          /\ \A n \in DOMAIN last.tree.levels :
                \E i \in 1..Len(last.levels) : n = LevelName(100 + (i - 1))
          /\ \A key \in DOMAIN last.ret :
                \E k \in 1..Len(last.config.extra_paths) : Under(last.ret[key], last.config.extra_paths[k])
    /\ (out.call = "list_context" /\ ~out.raised /\ ~LoadedConfig.auto_discover_parents) =>
          out.ret.parents = <<>>

\* with the switch off and content in the project's parent directory, a sync staged
\* only the extra source and the listing showed no parent
C22_AncestorsWithContentIgnored ==
    /\ SyncedNow /\ last.ok /\ ~last.config.auto_discover_parents
    /\ has_content(ScanDirectory(PathOf(Anc(1), <<>>), 1))
    /\ Len(last.levels) = 1 /\ last.levels[1].source_path.dir = ExtA
    /\ DOMAIN last.ret # {}
    /\ out.call = "list_context" /\ ~out.raised /\ out.ret.parents = <<>>

\* the recognized artifacts ~/.claude holds: CLAUDE.md and the four sub-collections
GlobalArtifacts ==
    LET in(s) == IF ~(s.exists /\ s.dc) THEN {}
                 ELSE (IF s.dcMd > 0 THEN {"claude_md"} ELSE {})
                      \cup {c \in CollNames : s[c].on}
    IN in(Shape(HomeDir))

\* the artifacts a level reports, by the same names
Reported(level) ==
    (IF level.claude_md # None THEN {"claude_md"} ELSE {})
        \cup (IF level.claude_local_md # None THEN {"claude_local_md"} ELSE {})
        \cup (IF level.rules_dir # None THEN {"rules"} ELSE {})
        \cup (IF level.skills_dir # None THEN {"skills"} ELSE {})
        \cup (IF level.agents_dir # None THEN {"agents"} ELSE {})
        \cup (IF level.commands_dir # None THEN {"commands"} ELSE {})

\* C23: list_contexts reports a global entry exactly when include_global is true and
\* ~/.claude exists with at least one of CLAUDE.md, rules, skills, agents, commands; the
\* entry reports the artifacts that are there, whatever global_components holds
C23_GlobalEntrySwitch ==
    (out.call = "list_context" /\ ~out.raised) =>
        /\ out.ret.global # {} <=> (LoadedConfig.include_global /\ GlobalArtifacts # {})
        /\ \A g \in out.ret.global :
              /\ Reported(g) = GlobalArtifacts
              /\ g.source_path = ClaudeHome /\ g.relative_depth = 0 - 1

\* a listing under a policy whose global_components is empty reported the global entry,
\* with the skills ~/.claude has
C23_ReportedWithNoComponents ==
    /\ out.call = "list_context" /\ ~out.raised
    /\ LoadedConfig.include_global /\ LoadedConfig.global_components = <<>>
    /\ \E g \in out.ret.global : g.skills_dir # None

\* C24: scanning a path that does not exist returns, without raising, a level with that
\* source_path and that depth and none of the six artifact fields set
C24_AbsentPathScansEmpty ==
    (out.call = "_scan_directory" /\ ~Exists(out.path)) =>
        /\ out.ret.source_path = out.path
        /\ out.ret.relative_depth = out.depth
        /\ ~HasArtifact(out.ret)
        /\ Reported(out.ret) = {}

\* the scanner was given the path of a CLAUDE.md that is not there, in a directory
\* that has other content, and returned a level
C24_MissingDocumentScanned ==
    /\ out.call = "_scan_directory"
    /\ ~Exists(out.path) /\ PathName(out.path) = "CLAUDE.md"
    /\ Exists(PathOf(out.path.dir, <<"CLAUDE.local.md">>))
    /\ out.ret.source_path = out.path

\* the place of an event in what a refresh did, 0 when it did not happen
Place(event) ==
    IF \E i \in 1..Len(out.events) : out.events[i] = event
    THEN CHOOSE i \in 1..Len(out.events) : out.events[i] = event ELSE 0

\* C25: in a run of csb claude refresh the sync from the sources comes first and, when
\* it staged items, csb.json is written, before the setup script is executed in the
\* container; once the sync returned, the container is looked up and the script is
\* executed exactly when a running container is found, also when the sync staged
\* nothing, and never when no container runs
C25_RefreshOrdering ==
    out.call = "refresh_context" =>
        /\ Place("sync") = 1
        /\ \A i, j \in 1..Len(out.events) : out.events[i] = out.events[j] => i = j
        /\ Place("write csb.json") # 0 <=> (out.ok /\ DOMAIN out.copied # {})
        /\ Place("get_container_id") # 0 <=> out.ok
        /\ Place("refresh_in_container") # 0 <=> (Place("get_container_id") # 0 /\ out.running)
        /\ Place("refresh_in_container") # 0 =>
              /\ Place("sync") < Place("refresh_in_container")
              /\ Place("write csb.json") < Place("refresh_in_container")
              /\ Place("get_container_id") < Place("refresh_in_container")
        /\ ~out.running => Place("refresh_in_container") = 0

\* a refresh whose sync staged nothing found the container running and executed the
\* script in it
C25_ExecutedAfterEmptySync ==
    /\ out.call = "refresh_context"
    /\ out.ok /\ out.copied = EmptyMap
    /\ out.running /\ out.execOk
    /\ Place("refresh_in_container") = 3
    /\ chome.made

\* the policy csb.json holds
PersistedPolicy == from_dict(Get(LoadedDict, "claude_context", EmptyDict))

\* the latest sync staged items, so the command wrote policy and mapping to csb.json
SyncPersisted == last.valid /\ last.ok /\ DOMAIN last.ret # {}

\* C26 as stated: after a sync followed by any of add_mcp_server, remove_mcp_server,
\* add_custom_mcp_server and update, csb.json still holds the claude_context policy and
\* the claude_context_sources mapping the sync persisted
C26_McpKeepsContextState ==
    SyncPersisted =>
        /\ PersistedPolicy = last.config
        /\ "claude_context_sources" \in DOMAIN LoadedDict
        /\ PersistedSources = last.ret

\* an MCP server was added after a sync that staged items: csb.json has the policy of
\* the sync and no claude_context_sources any more
C26_MappingGoneAfterMcpAdd ==
    /\ SyncPersisted
    /\ out.call = "add_mcp_server" /\ out.ret
    /\ PersistedPolicy = last.config
    /\ "claude_context_sources" \notin DOMAIN LoadedDict

\* no path is in the list twice
NoDuplicates(extra) == \A i, j \in 1..Len(extra) : extra[i] = extra[j] => i = j

\* the path is in the list
Listed(extra, path) == \E i \in 1..Len(extra) : extra[i] = path

\* the step is a run of the command: it left its record
Ran(command) == out' # out /\ out'.call = command

\* C27: from a csb.json whose extra list has no duplicates, no csb claude add or remove
\* ever leaves a path twice in the list; adding a path the list has leaves csb.json as
\* it was; adding a path that is not on disk, or without a .devcontainer, ends with exit
\* code 1 and csb.json as it was
C27_ExtraListNoDuplicates ==
    [][/\ NoDuplicates(ExtraList) => NoDuplicates(ExtraList')
       /\ Ran("add_source") =>
             /\ Listed(ExtraList, Resolve(out'.source)) => csb' = csb
             /\ (~devdir \/ ~Exists(Resolve(out'.source))) => (exit' = 1 /\ csb' = csb)]_vars

\* a source the list has was added again, spelled another way, and the list is as it was
C27_AddedTwice ==
    /\ out.call = "add_source" /\ ~out.failed /\ out.known
    /\ out.source.form = "unresolved"
    /\ exit = 0
    /\ ExtraList = out.extra /\ Len(ExtraList) >= 1

\* C28: csb claude add p, for an existing p the list does not have, followed by csb
\* claude remove p leaves the extra list as it was before the two, same elements in the
\* same order; removing a path the list does not have leaves csb.json as it was;
\* neither command touches the staging tree or the persisted mapping
C28_AddRemoveRoundTrip ==
    [][/\ (Ran("remove_source") /\ out.call = "add_source" /\ ~out.failed /\ ~out.known
           /\ Resolve(out'.source) = Resolve(out.source)
           /\ ExtraList = Append(out.extra, Resolve(out.source)))
          => ExtraList' = out.extra
       /\ (Ran("remove_source") /\ ~Listed(ExtraList, Resolve(out'.source))) => csb' = csb
       /\ (Ran("remove_source") \/ Ran("add_source")) =>
             (staging' = staging /\ PersistedSources' = PersistedSources)]_vars

\* on a synced project, a source was added behind another and removed again: the list
\* holds the other one, as before the two commands
C28_AddedThenRemoved ==
    /\ out.call = "remove_source" /\ ~out.failed /\ out.known
    /\ out.before = "add_source"
    /\ out.extra = Append(ExtraList, Resolve(out.source))
    /\ Len(ExtraList) = 1
    /\ staging.exists /\ DOMAIN PersistedSources # {}

\* whether the staged target of a reference is in the staging tree
TargetStaged(levels, t) ==
    /\ t.level \in DOMAIN levels
    /\ IF t.coll = "" THEN levels[t.level].md > 0
       ELSE levels[t.level][t.coll].on /\ ItemIndex(levels[t.level][t.coll].items, t.item) # 0

\* C29 as stated: after a sync that no longer stages a level or an item an earlier sync
\* staged and the script linked, and one more run of the script, the container's
\* rules, skills, agents, commands and parents directories hold no reference made by
\* the script whose staged target is gone
C29_NoStaleReferences ==
    (ScriptStaged /\ SyncedNow /\ last.ok) =>
        \A run \in {FirstRun} :
            \A r \in DOMAIN run.home.links : TargetStaged(run.tree.levels, run.home.links[r])

\* a source was deleted, the sync after it staged less, the script ran again, and the
\* container still has a reference to what is staged no more
C29_ReferenceOutlivesTarget ==
    /\ ScriptStaged /\ SyncedNow /\ last.ok
    /\ edits > 0
    /\ chome.made /\ FirstRun.home = chome
    /\ \E r \in DOMAIN chome.links : ~TargetStaged(staging.levels, chome.links[r])

\* the field of the record, section and key given, or what it is when the record lacks it
FieldOr(data, section, key, default) ==
    IF section \in DOMAIN data /\ key \in DOMAIN data[section] THEN data[section][key] ELSE default

\* C30: from_dict(c.to_dict()) equals c field by field; from_dict of an empty or absent
\* record is the default policy (include_global true, auto_discover_parents true,
\* parent_max_depth 3, no extra paths); a field the record lacks takes its default
C30_PolicyRoundTrip ==
    out.call = "from_dict" =>
        /\ \A c \in out.config :
              /\ out.ret.include_global = c.include_global
              /\ out.ret.global_components = c.global_components
              /\ out.ret.auto_discover_parents = c.auto_discover_parents
              /\ out.ret.parent_max_depth = c.parent_max_depth
              /\ out.ret.extra_paths = c.extra_paths
        /\ DOMAIN out.data = {} =>
              /\ out.ret.include_global = TRUE /\ out.ret.auto_discover_parents = TRUE
              /\ out.ret.parent_max_depth = 3 /\ out.ret.extra_paths = <<>>
        /\ out.ret.include_global = FieldOr(out.data, "global", "include", TRUE)
        /\ out.ret.global_components =
              FieldOr(out.data, "global", "components",
                      <<"CLAUDE.md", "agents", "commands", "skills", "rules", "settings.json">>)
        /\ out.ret.auto_discover_parents = FieldOr(out.data, "parents", "auto_discover", TRUE)
        /\ out.ret.parent_max_depth = FieldOr(out.data, "parents", "max_depth", 3)
        /\ out.ret.extra_paths = (IF "extra" \in DOMAIN out.data THEN out.data.extra ELSE <<>>)

\* a policy with every switch off, depth 0 and an extra path came back from its record
C30_AllOffCameBack ==
    /\ out.call = "from_dict"
    /\ \E c \in out.config :
          /\ ~c.include_global /\ ~c.auto_discover_parents
          /\ c.parent_max_depth = 0 /\ c.global_components = <<>> /\ c.extra_paths # <<>>
          /\ out.ret = c

====
